---- MODULE Spec2Model ----
(***************************************************************************)
(* Text2Learn: the free-text parsers of services/ai_service.py, the video  *)
(* ranker of services/youtube_service.py, the quiz scorers of app.py and   *)
(* utils/quiz_generator.py and the course generation flow of app.py.       *)
(*                                                                         *)
(* Text is modelled as sequences of one-character strings so that the      *)
(* regular expressions and string methods of the source are computed       *)
(* character by character.                                                 *)
(***************************************************************************)
EXTENDS Integers, Sequences, FiniteSets, TLC

\* ------------------------------------------------------------------------
\* Bounds
\* ------------------------------------------------------------------------
\* number of lines of model output fed to _parse_quiz
MaxLines == 7

\* longest question or explanation text (in characters) the lines may build
MaxText == 5

\* ------------------------------------------------------------------------
\* Characters and the str methods used by the source
\* ------------------------------------------------------------------------
UpperChars == <<"A","B","C","D","E","F","G","H","I","J","K","L","M",
                "N","O","P","Q","R","S","T","U","V","W","X","Y","Z">>

LowerChars == <<"a","b","c","d","e","f","g","h","i","j","k","l","m",
                "n","o","p","q","r","s","t","u","v","w","x","y","z">>

Digits == {"0","1","2","3","4","5","6","7","8","9"}

DigitChars == <<"0","1","2","3","4","5","6","7","8","9">>

DigitValue(c) == (CHOOSE n \in 1..10 : DigitChars[n] = c) - 1

\* the character class [A-D] without re.IGNORECASE
AtoD == {"A","B","C","D"}

IsSpace(c) == c \in {" ", "\t"}

SetMin(S) == CHOOSE x \in S : \A y \in S : x <= y

SetMax(S) == CHOOSE x \in S : \A y \in S : x >= y

\* str.lower() on one character
ToLower(c) ==
    IF \E i \in 1..26 : UpperChars[i] = c
    THEN LowerChars[CHOOSE i \in 1..26 : UpperChars[i] = c]
    ELSE c

\* str.upper() on one character
ToUpper(c) ==
    IF \E i \in 1..26 : LowerChars[i] = c
    THEN UpperChars[CHOOSE i \in 1..26 : LowerChars[i] = c]
    ELSE c

lower(s) == [i \in 1..Len(s) |-> ToLower(s[i])]

upper(s) == [i \in 1..Len(s) |-> ToUpper(s[i])]

\* str.strip()
strip(s) ==
    LET idx == {i \in 1..Len(s) : ~IsSpace(s[i])}
    IN  IF idx = {} THEN << >> ELSE SubSeq(s, SetMin(idx), SetMax(idx))

\* str.startswith(p)
startswith(s, p) == Len(s) >= Len(p) /\ SubSeq(s, 1, Len(p)) = p

\* the text after the first occurrence of c: s.split(c, 1)[1]
AfterFirst(s, c) ==
    LET idx == {i \in 1..Len(s) : s[i] = c}
    IN  SubSeq(s, SetMin(idx) + 1, Len(s))

\* index of the first character at or after p that is not whitespace
\* (Len(s) + 1 when there is none): the greedy \s*
SkipSpaces(s, p) ==
    LET idx == {i \in p..Len(s) : ~IsSpace(s[i])}
    IN  IF idx = {} THEN Len(s) + 1 ELSE SetMin(idx)

None == "None"

\* ------------------------------------------------------------------------
\* Python dicts with string keys: a function whose domain is the key set
\* ------------------------------------------------------------------------
EmptyDict == [k \in {} |-> << >>]

\* d[k] = v
DictSet(d, k, v) == [x \in (DOMAIN d) \cup {k} |-> IF x = k THEN v ELSE d[x]]

\* d.get(k, default)
Get(d, k, default) == IF k \in DOMAIN d THEN d[k] ELSE default

\* bool(d.get(k)) for string values
Truthy(d, k) == k \in DOMAIN d /\ d[k] # << >>

\* ------------------------------------------------------------------------
\* State
\* ------------------------------------------------------------------------
VARIABLES
    \* _parse_quiz
    pc,                   \* "run" while the loop reads lines, "done" after return
    nread,                \* number of lines of quiz_text read so far
    lastBlank,            \* whether the line the loop read last was blank
    questions,            \* the list being built; the return value when done
    current_question,     \* the current-record buffer
    reading_explanation,  \* the explanation-mode flag
    \* history of _parse_quiz: which blank-line-separated block each field is from
    origin,               \* per field of the buffer, where its text came from:
                          \* "cur" the block being read, "old" an earlier block
    origins,              \* origin of each record of questions
    optionsRead,          \* history: the option keys whose line the input had so far
    \* history of the input when it is made of complete quiz blocks
    blockPos,             \* Free for arbitrary input; otherwise the place in the
                          \* block: 0 before the question line, 1..4 before the
                          \* option lines A..D, 5 before the Correct Answer line,
                          \* 6 after it, 7 after the Explanation line
    blockQuestions,       \* the question line of each block read so far
    explOpen,             \* history: an Explanation line was read and since then
                          \* no blank line and no line one of the patterns matches
    lastMarker            \* history: the line read last was 'Question <number>'

quizVars ==
    <<pc, nread, lastBlank, questions, current_question, reading_explanation,
      origin, origins, optionsRead, blockPos, blockQuestions, explOpen,
      lastMarker>>

VARIABLES
    \* _parse_course_outline
    outPc,           \* "run" while the loop reads lines, "returned" after the
                     \* return, then "created" or "rejected" by app.main
    outRead,         \* number of lines of outline_text read so far
    outLastBlank,    \* whether the line read last was blank
    modules,         \* the dict being built, in insertion order: a sequence of
                     \* [key |-> title, value |-> list of subtopics]
    current_module,  \* None or the title of the module being filled
    \* tables of the database
    courses,         \* rows [id, user_id, title]
    moduleRows,      \* rows [id, course_id, title, order_index]
    subtopicRows,    \* rows [id, module_id, title, order_index, is_generated]
    current_course,  \* st.session_state.current_course: None or a course id
    \* history of the input of _parse_course_outline
    wellFormed,      \* whether the lines read so far are well-formed blocks only
    outBlocks,       \* the blocks read so far while wellFormed, one entry per
                     \* 'Module k: Title' line: [key |-> title, value |-> the
                     \* subtopics of the '- Subtopic' lines that follow it]
    \* the round trip
    reparsed         \* NotReparsed, or what _parse_course_outline returned for
                     \* the text written from the returned outline

outlineVars ==
    <<outPc, outRead, outLastBlank, modules, current_module,
      courses, moduleRows, subtopicRows, current_course,
      wellFormed, outBlocks, reparsed>>

VARIABLES
    \* calculate_quiz_score (utils/quiz_generator.py and app.py)
    answers,         \* the submitted answers: a dict from question index to label
    quizzes,         \* the list of quiz dicts
    score_data,      \* NotCalled or the dict utils.calculate_quiz_score returned
    app_score_data   \* NotCalled or the dict app.calculate_quiz_score returned

scoreVars == <<answers, quizzes, score_data, app_score_data>>

VARIABLES
    \* YouTubeService._select_best_video
    videos,          \* the candidate list
    search_query,    \* the search query
    best_video       \* NotCalled, or what _select_best_video returned

videoVars == <<videos, search_query, best_video>>

VARIABLES
    \* YouTubeService._parse_duration called on its own
    durParts,          \* history: how the duration text was put together
    duration_text,     \* the duration text passed to the call
    parsed_seconds,    \* what _parse_duration returned (0 before the call)
    durPc              \* "start" before the call, then "returned" or "raised"

durationVars == <<durParts, duration_text, parsed_seconds, durPc>>

VARIABLES
    \* utils/quiz_generator.shuffle_quiz_options
    input_quiz,      \* the quiz dict passed in
    new_quiz         \* NotCalled, or the dict shuffle_quiz_options returned

shuffleVars == <<input_quiz, new_quiz>>

VARIABLES
    \* generate_quiz_feedback (utils/quiz_generator.py and app.py)
    first_feedback,  \* NotCalled, or the first call made: which version, the
                     \* percentage of its score_data and the message returned
    second_feedback  \* NotCalled, or the second call made

feedbackVars == <<first_feedback, second_feedback>>

VARIABLES
    \* DatabaseService
    db,              \* the tables: users, courses, modules, subtopics, quizzes
                     \* (sequences of rows in insertion order) and quiz_seq,
                     \* the last id the quizzes table gave out
    last_call,       \* history: the DatabaseService method called last, what
                     \* it was given and whether it raised
    user_calls       \* the get_or_create_user calls in progress: per caller
                     \* its position, its username and its local variable user

dbVars == <<db, last_call, user_calls>>

VARIABLES
    \* app.py: the Streamlit sessions
    session_state,   \* per session st.session_state: current_course,
                     \* selected_subtopic, quiz_answers, show_quiz_results
    run,             \* per session the script run in progress: "idle" between
                     \* runs, else the place display_subtopic's generation has
                     \* reached, with its local variables
    reported,        \* per session what the last generation run reported with
                     \* st.error, st.warning, st.success or st.info, and which
                     \* call raised
    score_view,      \* per session NotCalled, or the score_data the results
                     \* view computed last
    \* history of the sessions
    answered_since,  \* per session the subtopic selected last and the answers
                     \* given since it was selected or its quiz retaken
    last_click,      \* the session that acted last and the button it pressed
    quiz_origin      \* for each quiz row id, the session whose run stored it

appVars ==
    <<session_state, run, reported, score_view, answered_since, last_click,
      quiz_origin>>

\* the routines that are functions of their arguments
routineVars ==
    <<quizVars, outlineVars, scoreVars, videoVars, durationVars, shuffleVars>>

\* the routines that keep state in the session or in the database
serviceVars == <<feedbackVars, dbVars, appVars>>

vars == <<routineVars, serviceVars>>

\* what each routine leaves alone
notQuiz ==
    <<outlineVars, scoreVars, videoVars, durationVars, shuffleVars, serviceVars>>

notOutline ==
    <<quizVars, scoreVars, videoVars, durationVars, shuffleVars, serviceVars>>

notScore ==
    <<quizVars, outlineVars, videoVars, durationVars, shuffleVars, serviceVars>>

notVideo ==
    <<quizVars, outlineVars, scoreVars, durationVars, shuffleVars, serviceVars>>

notDuration ==
    <<quizVars, outlineVars, scoreVars, videoVars, shuffleVars, serviceVars>>

notShuffle ==
    <<quizVars, outlineVars, scoreVars, videoVars, durationVars, serviceVars>>

notFeedback == <<routineVars, dbVars, appVars>>

notDb == <<routineVars, feedbackVars, appVars>>

\* the sessions use the tables of the database
notApp == <<routineVars, feedbackVars, last_call, user_calls>>

\* ------------------------------------------------------------------------
\* AIService._parse_quiz
\* ------------------------------------------------------------------------
required_fields ==
    {"question", "option_a", "option_b", "option_c", "option_d", "correct_answer"}

OptionKeys == {"option_a", "option_b", "option_c", "option_d"}

\* f'option_{option_letter.lower()}'
OptionKey(letter) ==
    CASE ToLower(letter) = "a" -> "option_a"
      [] ToLower(letter) = "b" -> "option_b"
      [] ToLower(letter) = "c" -> "option_c"
      [] ToLower(letter) = "d" -> "option_d"

\* _is_valid_quiz with the four option fields left out of required_fields
_is_valid_quiz_no_options(quiz) ==
    Truthy(quiz, "question") /\ Truthy(quiz, "correct_answer")

_is_valid_quiz(quiz) == \A field \in required_fields : Truthy(quiz, field)

\* re.match(r'^Question\s+\d+:?', line) without re.IGNORECASE
QuestionMarkerMatch_case_sensitive(line) ==
    /\ Len(line) >= 10
    /\ SubSeq(line, 1, 8) = <<"Q","u","e","s","t","i","o","n">>
    /\ IsSpace(line[9])
    /\ LET p == SkipSpaces(line, 9)
       IN  p <= Len(line) /\ line[p] \in Digits

\* re.match(r'^Question\s+\d+:?', line, re.IGNORECASE)
QuestionMarkerMatch(line) ==
    /\ Len(line) >= 10
    /\ lower(SubSeq(line, 1, 8)) = <<"q","u","e","s","t","i","o","n">>
    /\ IsSpace(line[9])
    /\ LET p == SkipSpaces(line, 9)
       IN  p <= Len(line) /\ line[p] \in Digits

\* re.match(r'^([A-D])[\):]\s*(.+)$', line)
OptionMatch(line) ==
    /\ Len(line) >= 3
    /\ line[1] \in AtoD
    /\ line[2] \in {")", ":"}

\* option_match.group(2).strip(): \s* is greedy but leaves (.+) one character
OptionText(line) ==
    LET p == SkipSpaces(line, 3)
        q == IF p > Len(line) THEN Len(line) ELSE p
    IN  strip(SubSeq(line, q, Len(line)))

\* re.match(r'^Correct Answer:?\s*([A-D])', line, re.IGNORECASE)
CorrectAnswerMatch(line) ==
    /\ Len(line) >= 15
    /\ lower(SubSeq(line, 1, 14)) =
          <<"c","o","r","r","e","c","t"," ","a","n","s","w","e","r">>
    /\ LET p0 == IF line[15] = ":" THEN 16 ELSE 15
           p  == SkipSpaces(line, p0)
       IN  p <= Len(line) /\ ToUpper(line[p]) \in AtoD

\* re.search(r'([A-D])', line): the positions of the line holding A, B, C or D
AnswerSearch(line) == {i \in 1..Len(line) : line[i] \in AtoD}

\* re.match(r'^Explanation:', line, re.IGNORECASE)
ExplanationMatch(line) ==
    /\ Len(line) >= 12
    /\ lower(SubSeq(line, 1, 12)) =
          <<"e","x","p","l","a","n","a","t","i","o","n",":">>

Bold == <<"*","*">>

Space == <<" ">>

\* ------------------------------------------------------------------------
\* Lines of model output offered to _parse_quiz (before line.strip())
\* ------------------------------------------------------------------------
LineQ1 == <<"Q","1">>

LineQ2 == <<"Q","2">>

LineOptA == <<"A",")"," ","a">>

LineOptB == <<"B",":","b">>

LineOptC == <<"C",")"," ","c">>

LineOptD == <<" ","D",")"," ","d"," ">>

LineAnsA == <<"C","o","r","r","e","c","t"," ","A","n","s","w","e","r",":"," ","A">>

LineAnsB == <<"C","o","r","r","e","c","t"," ","A","n","s","w","e","r",":"," ","B">>

LineAnsC == <<"C","o","r","r","e","c","t"," ","A","n","s","w","e","r",":"," ","C">>

LineAnsD == <<"C","o","r","r","e","c","t"," ","A","n","s","w","e","r",":"," ","D">>

LineAnsLowerB == <<"c","o","r","r","e","c","t"," ","a","n","s","w","e","r",":"," ","B">>

LineAnsLowerb == <<"c","o","r","r","e","c","t"," ","a","n","s","w","e","r"," ","b">>

LineExpl == <<"E","x","p","l","a","n","a","t","i","o","n",":"," ","e">>

LineMarker == <<"Q","u","e","s","t","i","o","n"," ","1",":"," ","Q">>

LineMarkerLower == <<"q","u","e","s","t","i","o","n"," ","2">>

LineBold == <<"*","*","b">>

LineBlank == << >>

QuizLines ==
    { LineQ1, LineQ2, LineOptA, LineOptB, LineOptC, LineOptD,
      LineAnsA, LineAnsB, LineAnsC, LineAnsD, LineAnsLowerB, LineAnsLowerb,
      LineExpl, LineMarker, LineMarkerLower, LineBold, LineBlank }

\* one iteration of the loop body on a stripped line that is neither blank nor
\* a question marker (ai_service.py lines 191-215): the buffer cq and the mode
\* re it leaves, the field it wrote ("" when none) and whether it appended
FieldStep(cq, re, line) ==
    IF OptionMatch(line) THEN
        [cq |-> DictSet(cq, OptionKey(line[1]), OptionText(line)), re |-> FALSE,
         wrote |-> OptionKey(line[1]), appended |-> FALSE]
    ELSE IF CorrectAnswerMatch(line) THEN
        IF AnswerSearch(line) # {}
        THEN [cq |-> DictSet(cq, "correct_answer",
                             <<ToUpper(line[SetMin(AnswerSearch(line))])>>),
              re |-> FALSE, wrote |-> "correct_answer", appended |-> FALSE]
        ELSE [cq |-> cq, re |-> FALSE, wrote |-> "", appended |-> FALSE]
    ELSE IF ExplanationMatch(line) THEN
        [cq |-> DictSet(cq, "explanation", strip(AfterFirst(line, ":"))),
         re |-> TRUE, wrote |-> "explanation", appended |-> FALSE]
    ELSE IF re /\ Truthy(cq, "explanation") THEN
        [cq |-> DictSet(cq, "explanation", cq["explanation"] \o Space \o line),
         re |-> re, wrote |-> "explanation", appended |-> TRUE]
    ELSE IF ~Truthy(cq, "question") /\ ~startswith(line, Bold) THEN
        [cq |-> DictSet(cq, "question", line), re |-> re,
         wrote |-> "question", appended |-> FALSE]
    ELSE IF Truthy(cq, "question") /\ (DOMAIN cq) \cap OptionKeys = {} THEN
        [cq |-> DictSet(cq, "question", cq["question"] \o Space \o line),
         re |-> re, wrote |-> "question", appended |-> TRUE]
    ELSE
        [cq |-> cq, re |-> re, wrote |-> "", appended |-> FALSE]

\* the flush test of lines 178, 185 and 217
Flushes(cq) == cq # EmptyDict /\ _is_valid_quiz(cq)

\* history: the origin of the buffer's fields after FieldStep wrote one
OriginStep(og, step) ==
    IF step.wrote = "" THEN og
    ELSE IF step.appended /\ step.wrote \in DOMAIN og
         THEN [og EXCEPT ![step.wrote] = @ \cup {"cur"}]
         ELSE [x \in (DOMAIN og) \cup {step.wrote} |->
                  IF x = step.wrote THEN {"cur"} ELSE og[x]]

\* history: a blank line ends the block, so what the buffer holds is now old
OriginAge(og) == [x \in DOMAIN og |-> {"old"}]

NoOrigin == [k \in {} |-> {}]

\* history: a line 'Question <number>', in any letter case: the word, whitespace, a
\* digit
QuestionNumberLine(line) ==
    /\ Len(line) >= 10
    /\ lower(SubSeq(line, 1, 8)) = <<"q","u","e","s","t","i","o","n">>
    /\ \E d \in 10..Len(line) :
          /\ \A i \in 9..(d - 1) : IsSpace(line[i])
          /\ line[d] \in Digits

\* blockPos when the input is arbitrary lines
Free == 0 - 1

\* number of complete quiz blocks of a block-shaped input
MaxBlocks == 2

\* a plain question line: a stripped line none of the patterns of lines 184-204
\* matches and that does not start with '**'
PlainQuestionLine(line) ==
    /\ line # << >>
    /\ ~QuestionMarkerMatch(line)
    /\ ~OptionMatch(line)
    /\ ~CorrectAnswerMatch(line)
    /\ ~ExplanationMatch(line)
    /\ ~startswith(line, Bold)

\* the lines that may come at place pos of a block-shaped input: a question
\* line, the option lines A to D, a Correct Answer line, then an Explanation
\* line or the blank line before the next block
BlockLineOk(pos, nblocks, raw) ==
    LET line == strip(raw)
    IN  CASE pos = 0 -> PlainQuestionLine(line)
          [] pos \in 1..4 ->
                OptionMatch(line) /\ line[1] = UpperChars[pos]
          [] pos = 5 -> CorrectAnswerMatch(line)
          [] pos = 6 -> \/ ExplanationMatch(line)
                        \/ line = << >> /\ nblocks < MaxBlocks
          [] pos = 7 -> line = << >> /\ nblocks < MaxBlocks

\* history: the place in the block after a line was read
BlockPosStep(pos, raw) ==
    IF pos = Free THEN Free
    ELSE IF strip(raw) = << >> THEN 0
    ELSE pos + 1

InitQuiz ==
    /\ pc = "run"
    /\ nread = 0
    /\ lastBlank = FALSE
    /\ questions = << >>
    /\ current_question = EmptyDict
    /\ reading_explanation = FALSE
    /\ origin = NoOrigin
    /\ origins = << >>
    /\ optionsRead = {}
    /\ blockPos = Free
    /\ blockQuestions = << >>
    /\ explOpen = FALSE
    /\ lastMarker = FALSE

\* _parse_quiz called on a text made of complete quiz blocks
InitQuizBlocks ==
    /\ pc = "run"
    /\ nread = 0
    /\ lastBlank = FALSE
    /\ questions = << >>
    /\ current_question = EmptyDict
    /\ reading_explanation = FALSE
    /\ origin = NoOrigin
    /\ origins = << >>
    /\ optionsRead = {}
    /\ blockPos = 0
    /\ blockQuestions = << >>
    /\ explOpen = FALSE
    /\ lastMarker = FALSE

\* quiz_text.strip().split('\n') has no blank first or last line, except that
\* an empty quiz_text is the single line ''
MayRead(raw) ==
    /\ pc = "run"
    /\ IF blockPos = Free
       THEN /\ nread < MaxLines
            /\ ~(nread = 1 /\ lastBlank)
       ELSE BlockLineOk(blockPos, Len(blockQuestions), raw)
    /\ nread >= 1 \/ raw \in QuizLines

\* lines 177-182: a blank line
ReadBlank(raw) ==
    /\ MayRead(raw)
    /\ strip(raw) = << >>
    /\ IF Flushes(current_question)
       THEN /\ questions' = Append(questions, current_question)
            /\ origins' = Append(origins, origin)
            /\ current_question' = EmptyDict
            /\ origin' = NoOrigin
            /\ reading_explanation' = FALSE
       ELSE /\ origin' = OriginAge(origin)
            /\ UNCHANGED <<questions, origins, current_question,
                           reading_explanation>>
    /\ nread' = nread + 1
    /\ lastBlank' = TRUE
    /\ blockPos' = BlockPosStep(blockPos, raw)
    /\ explOpen' = FALSE
    /\ lastMarker' = QuestionNumberLine(strip(raw))
    /\ UNCHANGED <<pc, optionsRead, blockQuestions>>
    /\ UNCHANGED notQuiz

\* lines 184-189: a 'Question <n>' marker line
ReadMarker(raw) ==
    /\ MayRead(raw)
    /\ strip(raw) # << >>
    /\ QuestionMarkerMatch(strip(raw))
    /\ IF Flushes(current_question)
       THEN /\ questions' = Append(questions, current_question)
            /\ origins' = Append(origins, origin)
       ELSE UNCHANGED <<questions, origins>>
    /\ current_question' = EmptyDict
    /\ origin' = NoOrigin
    /\ reading_explanation' = FALSE
    /\ nread' = nread + 1
    /\ lastBlank' = FALSE
    /\ blockPos' = BlockPosStep(blockPos, raw)
    /\ explOpen' = FALSE
    /\ lastMarker' = QuestionNumberLine(strip(raw))
    /\ UNCHANGED <<pc, optionsRead, blockQuestions>>
    /\ UNCHANGED notQuiz

\* history: explOpen after a line that is neither blank nor a question marker
ExplOpenStep(open, line) ==
    IF OptionMatch(line) \/ CorrectAnswerMatch(line) THEN FALSE
    ELSE IF ExplanationMatch(line) THEN TRUE
    ELSE open

\* lines 191-215: any other line
ReadField(raw) ==
    /\ MayRead(raw)
    /\ \E line \in {strip(raw)} :
          /\ line # << >>
          /\ ~QuestionMarkerMatch(line)
          /\ \E step \in {FieldStep(current_question, reading_explanation, line)} :
                /\ (blockPos = Free /\ step.appended) =>
                       Len(step.cq[step.wrote]) <= MaxText
                /\ current_question' = step.cq
                /\ reading_explanation' = step.re
                /\ origin' = OriginStep(origin, step)
          /\ optionsRead' = IF OptionMatch(line)
                            THEN optionsRead \cup {OptionKey(line[1])}
                            ELSE optionsRead
          /\ blockQuestions' = IF blockPos = 0
                               THEN Append(blockQuestions, line)
                               ELSE blockQuestions
          /\ explOpen' = ExplOpenStep(explOpen, line)
          /\ lastMarker' = QuestionNumberLine(line)
    /\ nread' = nread + 1
    /\ lastBlank' = FALSE
    /\ blockPos' = BlockPosStep(blockPos, raw)
    /\ UNCHANGED <<pc, questions, origins>>
    /\ UNCHANGED notQuiz

\* lines 217-220: the flush at end of input and the return
ReturnQuiz ==
    /\ pc = "run"
    /\ nread >= 1
    /\ nread = 1 \/ ~lastBlank
    /\ blockPos = Free \/ blockPos >= 6
    /\ IF Flushes(current_question)
       THEN /\ questions' = Append(questions, current_question)
            /\ origins' = Append(origins, origin)
       ELSE UNCHANGED <<questions, origins>>
    /\ pc' = "done"
    /\ UNCHANGED <<nread, lastBlank, current_question, reading_explanation,
                   origin, optionsRead, blockPos, blockQuestions, explOpen,
                   lastMarker>>
    /\ UNCHANGED notQuiz

NextQuiz ==
    \/ \E raw \in QuizLines : ReadBlank(raw)
    \/ \E raw \in QuizLines : ReadMarker(raw)
    \/ \E raw \in QuizLines : ReadField(raw)
    \/ ReturnQuiz

\* the loop on a block-shaped input: no line of it is a question marker
NextQuizBlocks ==
    \/ \E raw \in QuizLines : ReadBlank(raw)
    \/ \E raw \in QuizLines : ReadField(raw)
    \/ ReturnQuiz


\* ------------------------------------------------------------------------
\* AIService._parse_course_outline and the generation flow of app.main
\* ------------------------------------------------------------------------
\* number of lines of model output fed to _parse_course_outline
MaxOutlineLines == 6

OutModX == <<"M","o","d","u","l","e"," ","1",":"," ","X">>

OutModY == <<"M","o","d","u","l","e"," ","2",":"," ","Y">>

OutModZ == <<"M","o","d","u","l","e"," ","3",":"," ","Z">>

OutModNoTitle == <<"M","o","d","u","l","e"," ","4",":">>

OutModNoColon == <<"M","o","d","u","l","e"," ","5"," ","W">>

OutSubS == <<"-"," ","s">>

OutSubT == <<" ","-","t"," ">>

OutSubEmpty == <<"-">>

OutJunk == <<"x">>

OutBlank == << >>

\* the title of OutModX under another number
OutModXAgain == <<"M","o","d","u","l","e"," ","6",":","X">>

OutlineLines ==
    { OutModX, OutModY, OutModZ, OutModNoTitle, OutModNoColon, OutModXAgain,
      OutSubS, OutSubT, OutSubEmpty, OutJunk, OutBlank }

ModuleWord == <<"M","o","d","u","l","e">>

Dash == <<"-">>

\* the topic typed into the form and the user of the session
Topic == <<"T">>

SessionUserId == 1

\* the positions of key k in the ordered dict d
KeyIndex(d, k) == {i \in 1..Len(d) : d[i].key = k}

\* modules.setdefault(k, []) in place of modules[k] = []
OrderedSetEmpty_keep(d, k) ==
    IF KeyIndex(d, k) = {}
    THEN Append(d, [key |-> k, value |-> << >>])
    ELSE d

\* modules[k] = []: a new key goes last, an existing key keeps its place
OrderedSetEmpty(d, k) ==
    IF KeyIndex(d, k) = {}
    THEN Append(d, [key |-> k, value |-> << >>])
    ELSE [d EXCEPT ![SetMin(KeyIndex(d, k))].value = << >>]

\* modules[k].insert(0, v) in place of modules[k].append(v)
OrderedAppend_front(d, k, v) ==
    [d EXCEPT ![SetMin(KeyIndex(d, k))].value = <<v>> \o @]

\* modules[k].append(v)
OrderedAppend(d, k, v) ==
    [d EXCEPT ![SetMin(KeyIndex(d, k))].value = Append(@, v)]

\* lines 71-74 without the strip() of line 73
ModuleStep_no_strip(mods, cur, line) ==
    IF \E i \in 1..Len(line) : line[i] = ":"
    THEN [modules |-> OrderedSetEmpty(mods, AfterFirst(line, ":")),
          current_module |-> AfterFirst(line, ":")]
    ELSE [modules |-> mods, current_module |-> cur]

\* lines 71-74: a line that starts with "Module"
ModuleStep(mods, cur, line) ==
    IF \E i \in 1..Len(line) : line[i] = ":"
    THEN [modules |-> OrderedSetEmpty(mods, strip(AfterFirst(line, ":"))),
          current_module |-> strip(AfterFirst(line, ":"))]
    ELSE [modules |-> mods, current_module |-> cur]

\* lines 76-78 without the test of line 77
SubtopicStep_no_empty_test(mods, cur, line) ==
    OrderedAppend(mods, cur, strip(SubSeq(line, 2, Len(line))))

\* lines 76-78: a line that starts with '-' while a module is open
SubtopicStep(mods, cur, line) ==
    LET subtopic == strip(SubSeq(line, 2, Len(line)))
    IN  IF subtopic # << >> THEN OrderedAppend(mods, cur, subtopic) ELSE mods

\* lines 66-78: the loop body on one line, st = [modules, current_module]
OutlineLineStep(st, raw) ==
    LET line == strip(raw)
        cur == st.current_module
    IN  IF line = << >> THEN st
        ELSE IF startswith(line, ModuleWord)
             THEN ModuleStep(st.modules, cur, line)
        ELSE IF startswith(line, Dash) /\ cur # None /\ cur # << >>
             THEN [modules |-> SubtopicStep(st.modules, cur, line),
                   current_module |-> cur]
        ELSE st

\* lines 61-80 on the first n lines of a text
RECURSIVE OutlineLoop(_, _)
OutlineLoop(lines, n) ==
    IF n = 0 THEN [modules |-> << >>, current_module |-> None]
    ELSE OutlineLineStep(OutlineLoop(lines, n - 1), lines[n])

\* AIService._parse_course_outline on a text given as its lines
_parse_course_outline(lines) == OutlineLoop(lines, Len(lines)).modules

\* str(k) for k >= 0
RECURSIVE NumberText(_)
NumberText(k) ==
    IF k < 10 THEN <<DigitChars[k + 1]>>
    ELSE NumberText(k \div 10) \o <<DigitChars[(k % 10) + 1]>>

\* the text format lines 71-78 read, written from the first m modules of an
\* outline: 'Module k: Title', then one '- Subtopic' line per subtopic
RECURSIVE WriteOutline(_, _)
WriteOutline(outline, m) ==
    IF m = 0 THEN << >>
    ELSE WriteOutline(outline, m - 1)
         \o <<ModuleWord \o <<" ">> \o NumberText(m) \o <<":", " ">>
               \o outline[m].key>>
         \o [j \in 1..Len(outline[m].value) |->
                <<"-", " ">> \o outline[m].value[j]]

\* a well-formed 'Module k: Title' line: a number after the word, a colon
\* and a title
WellFormedModuleLine(line) ==
    /\ startswith(line, ModuleWord \o <<" ">>)
    /\ \E c \in 9..Len(line) :
          /\ line[c] = ":"
          /\ \A i \in 8..(c - 1) : line[i] \in Digits
          /\ strip(SubSeq(line, c + 1, Len(line))) # << >>

\* a well-formed '- Subtopic' line
WellFormedSubtopicLine(line) ==
    /\ startswith(line, Dash)
    /\ strip(SubSeq(line, 2, Len(line))) # << >>

\* history: the blocks after a non-blank stripped line was read
BlocksStep(wf, blocks, line) ==
    IF wf /\ WellFormedModuleLine(line)
    THEN [wf |-> TRUE,
          blocks |-> Append(blocks, [key |-> strip(AfterFirst(line, ":")),
                                     value |-> << >>])]
    ELSE IF wf /\ WellFormedSubtopicLine(line) /\ blocks # << >>
    THEN [wf |-> TRUE,
          blocks |-> [blocks EXCEPT ![Len(blocks)].value =
                         Append(@, strip(SubSeq(line, 2, Len(line))))]]
    ELSE [wf |-> FALSE, blocks |-> << >>]

\* reparsed before the round trip
NotReparsed == [called |-> FALSE, value |-> << >>]

InitOutline ==
    /\ wellFormed = TRUE
    /\ outBlocks = << >>
    /\ reparsed = NotReparsed
    /\ outPc = "run"
    /\ outRead = 0
    /\ outLastBlank = FALSE
    /\ modules = << >>
    /\ current_module = None
    /\ courses = << >>
    /\ moduleRows = << >>
    /\ subtopicRows = << >>
    /\ current_course = None

\* outline_text.strip().split('\n') has no blank first or last line, except
\* that an empty outline_text is the single line ''
MayReadOutline ==
    /\ outPc = "run"
    /\ outRead < MaxOutlineLines
    /\ ~(outRead = 1 /\ outLastBlank)

\* lines 67-69: a blank line is skipped
OutlineBlank(raw) ==
    /\ MayReadOutline
    /\ strip(raw) = << >>
    /\ outRead' = outRead + 1
    /\ outLastBlank' = TRUE
    /\ UNCHANGED <<outPc, modules, current_module,
                   courses, moduleRows, subtopicRows, current_course,
                   wellFormed, outBlocks, reparsed>>
    /\ UNCHANGED notOutline

\* lines 71-74
OutlineModule(raw) ==
    /\ MayReadOutline
    /\ strip(raw) # << >>
    /\ startswith(strip(raw), ModuleWord)
    /\ LET step == ModuleStep(modules, current_module, strip(raw))
       IN  /\ modules' = step.modules
           /\ current_module' = step.current_module
    /\ outRead' = outRead + 1
    /\ outLastBlank' = FALSE
    /\ wellFormed' = BlocksStep(wellFormed, outBlocks, strip(raw)).wf
    /\ outBlocks' = BlocksStep(wellFormed, outBlocks, strip(raw)).blocks
    /\ UNCHANGED <<outPc, courses, moduleRows, subtopicRows, current_course,
                   reparsed>>
    /\ UNCHANGED notOutline

\* lines 75-78
OutlineSubtopic(raw) ==
    /\ MayReadOutline
    /\ strip(raw) # << >>
    /\ ~startswith(strip(raw), ModuleWord)
    /\ startswith(strip(raw), Dash)
    /\ current_module # None /\ current_module # << >>
    /\ modules' = SubtopicStep(modules, current_module, strip(raw))
    /\ outRead' = outRead + 1
    /\ outLastBlank' = FALSE
    /\ wellFormed' = BlocksStep(wellFormed, outBlocks, strip(raw)).wf
    /\ outBlocks' = BlocksStep(wellFormed, outBlocks, strip(raw)).blocks
    /\ UNCHANGED <<outPc, current_module,
                   courses, moduleRows, subtopicRows, current_course, reparsed>>
    /\ UNCHANGED notOutline

\* a line that matches neither branch is dropped
OutlineOther(raw) ==
    /\ MayReadOutline
    /\ strip(raw) # << >>
    /\ ~startswith(strip(raw), ModuleWord)
    /\ ~(/\ startswith(strip(raw), Dash)
         /\ current_module # None /\ current_module # << >>)
    /\ outRead' = outRead + 1
    /\ outLastBlank' = FALSE
    /\ wellFormed' = BlocksStep(wellFormed, outBlocks, strip(raw)).wf
    /\ outBlocks' = BlocksStep(wellFormed, outBlocks, strip(raw)).blocks
    /\ UNCHANGED <<outPc, modules, current_module,
                   courses, moduleRows, subtopicRows, current_course, reparsed>>
    /\ UNCHANGED notOutline

\* line 80: return modules
ReturnOutline ==
    /\ outPc = "run"
    /\ outRead >= 1
    /\ outRead = 1 \/ ~outLastBlank
    /\ outPc' = "returned"
    /\ UNCHANGED <<outRead, outLastBlank, modules, current_module,
                   courses, moduleRows, subtopicRows, current_course,
                   wellFormed, outBlocks, reparsed>>
    /\ UNCHANGED notOutline

\* app.py line 172: not outline or len(outline) < 3
OutlineRejected(outline) == outline = << >> \/ Len(outline) < 3

\* the module rows create_full_course adds for an outline (db_service.py
\* lines 217-225, 236): ids follow the rows already in the table
NewModuleRows(outline, course_id, first_id) ==
    [m \in 1..Len(outline) |->
        [id |-> first_id + m - 1, course_id |-> course_id,
         title |-> outline[m].key, order_index |-> m - 1]]

\* a Subtopic row as its constructor leaves it (db_service.py lines 100-105
\* and 228-233): the columns not given are NULL (models.py lines 64-72)
SubtopicRow(id, module_id, title, order_index) ==
    [id |-> id, module_id |-> module_id, title |-> title,
     order_index |-> order_index, is_generated |-> 0, content |-> None,
     youtube_keywords |-> None, video_url |-> None, video_title |-> None]

\* the subtopics of the first m modules of an outline, in order
RECURSIVE SubtopicsBefore(_, _, _, _)
SubtopicsBefore(outline, m, first_module_id, first_id) ==
    IF m = 0 THEN << >>
    ELSE LET before == SubtopicsBefore(outline, m - 1, first_module_id, first_id)
             subs == outline[m].value
         IN  before \o
             [j \in 1..Len(subs) |->
                 SubtopicRow(first_id + Len(before) + j - 1,
                             first_module_id + m - 1, subs[j], j - 1)]

\* app.py lines 172-174: the outline is refused and nothing is stored
GenerateCourseReject ==
    /\ outPc = "returned"
    /\ OutlineRejected(modules)
    /\ outPc' = "rejected"
    /\ UNCHANGED <<outRead, outLastBlank, modules, current_module,
                   courses, moduleRows, subtopicRows, current_course,
                   wellFormed, outBlocks, reparsed>>
    /\ UNCHANGED notOutline

\* app.py lines 176-184 with DatabaseService.create_full_course
GenerateCourseCreate ==
    /\ outPc = "returned"
    /\ ~OutlineRejected(modules)
    /\ LET course_id == Len(courses) + 1
       IN  /\ courses' = Append(courses,
                  [id |-> course_id, user_id |-> SessionUserId, title |-> Topic])
           /\ moduleRows' = moduleRows \o
                  NewModuleRows(modules, course_id, Len(moduleRows) + 1)
           /\ subtopicRows' = subtopicRows \o
                  SubtopicsBefore(modules, Len(modules), Len(moduleRows) + 1,
                                  Len(subtopicRows) + 1)
           /\ current_course' = course_id
    /\ outPc' = "created"
    /\ UNCHANGED <<outRead, outLastBlank, modules, current_module,
                   wellFormed, outBlocks, reparsed>>
    /\ UNCHANGED notOutline

\* the round trip: the returned outline written as text and parsed again
ReparseOutline ==
    /\ outPc = "returned"
    /\ reparsed = NotReparsed
    /\ reparsed' =
          [called |-> TRUE,
           value |-> _parse_course_outline(WriteOutline(modules, Len(modules)))]
    /\ UNCHANGED <<outPc, outRead, outLastBlank, modules, current_module,
                   courses, moduleRows, subtopicRows, current_course,
                   wellFormed, outBlocks>>
    /\ UNCHANGED notOutline

NextOutline ==
    \/ \E raw \in OutlineLines : OutlineBlank(raw)
    \/ \E raw \in OutlineLines : OutlineOther(raw)
    \/ \E raw \in OutlineLines : OutlineModule(raw)
    \/ \E raw \in OutlineLines : OutlineSubtopic(raw)
    \/ ReturnOutline
    \/ GenerateCourseReject
    \/ GenerateCourseCreate
    \/ ReparseOutline

\* utils/prompt_helpers.validate_course_outline on a dict of str to list of str
validate_course_outline(outline) ==
    /\ Len(outline) >= 3 /\ Len(outline) <= 10
    /\ \A m \in 1..Len(outline) :
          /\ outline[m].key # << >>
          /\ Len(outline[m].value) >= 2
          /\ \A j \in 1..Len(outline[m].value) : outline[m].value[j] # << >>

\* ------------------------------------------------------------------------
\* calculate_quiz_score: utils/quiz_generator.py and app.py
\* ------------------------------------------------------------------------
\* number of quizzes of a subtopic
MaxQuiz == 3

\* the quiz dicts offered: correct_answer uppercase, lowercase, empty, missing
QuizDicts ==
    { [correct_answer |-> <<"A">>], [correct_answer |-> <<"b">>],
      [correct_answer |-> << >>], EmptyDict }

\* the labels a submitted answer may hold
AnswerLabels == { <<"a">>, <<"B">>, << >> }

\* the value of a result variable before the call
NotCalled == [called |-> FALSE]

\* a fraction num/den, den > 0
Fraction(n, d) == [num |-> n, den |-> d]

\* round(x, 1) of x = 100 * correct / total, in tenths; round() rounds a tie
\* to the even neighbour
RoundPercent1(correct, total) ==
    LET n == 1000 * correct
        q == n \div total
        r == n % total
    IN  IF 2 * r > total \/ (2 * r = total /\ q % 2 = 1)
        THEN Fraction(q + 1, 10)
        ELSE Fraction(q, 10)

\* int(x) of x = correct / total * 100 rounded up instead of truncated
TruncPercent_ceil(correct, total) ==
    Fraction((100 * correct + total - 1) \div total, 1)

\* int(x) of x = correct / total * 100: truncation
TruncPercent(correct, total) == Fraction((100 * correct) \div total, 1)

\* the positions utils.calculate_quiz_score counts (lines 68-73)
UtilsCorrect(ans, qs) ==
    {i \in 1..Len(qs) :
        upper(Get(ans, i - 1, << >>)) =
        upper(Get(qs[i], "correct_answer", << >>))}

\* utils/quiz_generator.calculate_quiz_score
calculate_quiz_score(ans, qs) ==
    IF qs = << >>
    THEN [score |-> 0, total |-> 0, percentage |-> Fraction(0, 1),
          correct |-> 0, incorrect |-> 0]
    ELSE LET correct == Cardinality(UtilsCorrect(ans, qs))
             total == Len(qs)
         IN  [score |-> correct, total |-> total,
              percentage |-> RoundPercent1(correct, total),
              correct |-> correct, incorrect |-> total - correct]

\* the positions app.calculate_quiz_score counts (lines 84-87)
AppCorrect(ans, qs) ==
    {i \in 1..Len(qs) :
        Get(ans, i - 1, << >>) = Get(qs[i], "correct_answer", << >>)}

\* app.calculate_quiz_score
app_calculate_quiz_score(ans, qs) ==
    LET correct == Cardinality(AppCorrect(ans, qs))
        total == Len(qs)
    IN  [score |-> correct, total |-> total,
         percentage |-> IF total > 0 THEN TruncPercent(correct, total)
                        ELSE Fraction(0, 1)]

\* the dicts from some of the indices 0..n-1 to a label
AnswerDicts(n) ==
    UNION {[idx -> AnswerLabels] : idx \in SUBSET (0..(n - 1))}

InitScore ==
    /\ \E n \in 0..MaxQuiz :
          /\ quizzes \in [1..n -> QuizDicts]
          /\ answers \in AnswerDicts(n)
    /\ score_data = NotCalled
    /\ app_score_data = NotCalled

CalcScoreUtils ==
    /\ score_data = NotCalled
    /\ score_data' = calculate_quiz_score(answers, quizzes)
    /\ UNCHANGED <<answers, quizzes, app_score_data>>
    /\ UNCHANGED notScore

CalcScoreApp ==
    /\ app_score_data = NotCalled
    /\ app_score_data' = app_calculate_quiz_score(answers, quizzes)
    /\ UNCHANGED <<answers, quizzes, score_data>>
    /\ UNCHANGED notScore

NextScore == CalcScoreUtils \/ CalcScoreApp

\* ------------------------------------------------------------------------
\* YouTubeService._select_best_video and _parse_duration
\* ------------------------------------------------------------------------
\* number of candidates in the list
MaxVideos == 3

\* whether int(s) succeeds, for a string of digits and letters
IsNumber(s) == s # << >> /\ \A i \in 1..Len(s) : s[i] \in Digits

\* int(s) for a string of digits
RECURSIVE IntOf(_)
IntOf(s) ==
    IF s = << >> THEN 0
    ELSE 10 * IntOf(SubSeq(s, 1, Len(s) - 1)) + DigitValue(s[Len(s)])

\* sub in s
Contains(s, sub) ==
    \E i \in 1..(Len(s) - Len(sub) + 1) : SubSeq(s, i, i + Len(sub) - 1) = sub

\* s.replace(pat, '')
RECURSIVE RemoveAll(_, _)
RemoveAll(s, pat) ==
    IF Len(s) < Len(pat) THEN s
    ELSE IF SubSeq(s, 1, Len(pat)) = pat
         THEN RemoveAll(SubSeq(s, Len(pat) + 1, Len(s)), pat)
         ELSE <<s[1]>> \o RemoveAll(SubSeq(s, 2, Len(s)), pat)

\* s.split(c)[0]
SplitFirst(s, c) ==
    LET idx == {i \in 1..Len(s) : s[i] = c}
    IN  IF idx = {} THEN s ELSE SubSeq(s, 1, SetMin(idx) - 1)

\* s.split(c)[1], for s that holds c
SplitSecond(s, c) == SplitFirst(AfterFirst(s, c), c)

\* s.split(): the words between runs of whitespace
RECURSIVE Words(_)
Words(s) ==
    LET p == SkipSpaces(s, 1)
    IN  IF p > Len(s) THEN << >>
        ELSE LET sp == {i \in p..Len(s) : IsSpace(s[i])}
                 e == IF sp = {} THEN Len(s) ELSE SetMin(sp) - 1
             IN  <<SubSeq(s, p, e)>> \o Words(SubSeq(s, e + 1, Len(s)))

\* exact arithmetic on fractions for the float score
RECURSIVE Gcd(_, _)
Gcd(a, b) == IF b = 0 THEN a ELSE Gcd(b, a % b)

Abs(n) == IF n < 0 THEN -n ELSE n

Normalize(n, d) == Fraction(n \div Gcd(Abs(n), d), d \div Gcd(Abs(n), d))

FracAdd(a, b) == Normalize(a.num * b.den + b.num * a.den, a.den * b.den)

FracLess(a, b) == a.num * b.den < b.num * a.den

FracMin(a, b) == IF FracLess(b, a) THEN b ELSE a

\* _parse_duration with a part that is not a number counted as 0
_parse_duration_partial(text) ==
    LET d0 == RemoveAll(text, <<"P","T">>)
        hasH == Contains(d0, <<"H">>)
        d1 == IF hasH THEN SplitSecond(d0, "H") ELSE d0
        hasM == Contains(d1, <<"M">>)
        d2 == IF hasM THEN SplitSecond(d1, "M") ELSE d1
        hasS == Contains(d2, <<"S">>)
        hoursText == SplitFirst(d0, "H")
        minutesText == SplitFirst(d1, "M")
        secondsText == RemoveAll(d2, <<"S">>)
    IN  (IF hasH /\ IsNumber(hoursText) THEN IntOf(hoursText) ELSE 0) * 3600
        + (IF hasM /\ IsNumber(minutesText) THEN IntOf(minutesText) ELSE 0) * 60
        + (IF hasS /\ IsNumber(secondsText) THEN IntOf(secondsText) ELSE 0)

\* YouTubeService._parse_duration: int() failing anywhere returns 0
_parse_duration(duration) ==
    LET d0 == RemoveAll(duration, <<"P","T">>)
        hasH == Contains(d0, <<"H">>)
        d1 == IF hasH THEN SplitSecond(d0, "H") ELSE d0
        hasM == Contains(d1, <<"M">>)
        d2 == IF hasM THEN SplitSecond(d1, "M") ELSE d1
        hasS == Contains(d2, <<"S">>)
        hoursText == SplitFirst(d0, "H")
        minutesText == SplitFirst(d1, "M")
        secondsText == RemoveAll(d2, <<"S">>)
    IN  IF \/ hasH /\ ~IsNumber(hoursText)
           \/ hasM /\ ~IsNumber(minutesText)
           \/ hasS /\ ~IsNumber(secondsText)
        THEN 0
        ELSE (IF hasH THEN IntOf(hoursText) ELSE 0) * 3600
             + (IF hasM THEN IntOf(minutesText) ELSE 0) * 60
             + (IF hasS THEN IntOf(secondsText) ELSE 0)

\* educational_keywords without 'beginner'
educational_keywords_no_beginner ==
    << <<"t","u","t","o","r","i","a","l">>,
       <<"g","u","i","d","e">>,
       <<"c","o","u","r","s","e">>,
       <<"e","x","p","l","a","i","n","e","d">>,
       <<"l","e","a","r","n">>,
       <<"i","n","t","r","o","d","u","c","t","i","o","n">>,
       <<"c","o","m","p","l","e","t","e">> >>

educational_keywords ==
    << <<"t","u","t","o","r","i","a","l">>,
       <<"g","u","i","d","e">>,
       <<"c","o","u","r","s","e">>,
       <<"e","x","p","l","a","i","n","e","d">>,
       <<"l","e","a","r","n">>,
       <<"i","n","t","r","o","d","u","c","t","i","o","n">>,
       <<"b","e","g","i","n","n","e","r">>,
       <<"c","o","m","p","l","e","t","e">> >>

TitleTutorial == <<"P","y","t","h","o","n"," ","T","u","t","o","r","i","a","l">>

TitleLearn == <<"L","e","a","r","n"," ","P","y","t","h","o","n">>

QueryPython == <<"p","y","t","h","o","n"," ","t","u","t","o","r","i","a","l">>

QueryLearn == <<"L","e","a","r","n"," "," ","P","Y","T","H","O","N">>

DurTenMin == <<"P","T","1","0","M">>

DurHalfMin == <<"P","T","3","0","S">>

DurOneHour == <<"P","T","1","H">>

DurGarbled == <<"P","T","x","M">>

\* 120 seconds
DurTwoMin == <<"P","T","2","M">>

\* 3601 seconds
DurOverOneHour == <<"P","T","1","H","1","S">>

TitleBeginners ==
    <<"P","y","t","h","o","n"," ","T","u","t","o","r","i","a","l"," ",
      "f","o","r"," ","B","e","g","i","n","n","e","r","s">>

DescText == <<"d">>

\* a video item of the YouTube API
Video(id, stats, title, duration) ==
    [id |-> id, statistics |-> stats,
     snippet |-> [title |-> title, description |-> DescText],
     contentDetails |-> [duration |-> duration]]

Stats(views, likes) == [viewCount |-> views, likeCount |-> likes]

\* d without key k
DictDel(d, k) == [x \in (DOMAIN d) \ {k} |-> d[x]]

VidA == Video(<<"a">>, Stats(<<"1","0","0","0","0","0">>, <<"1","0","0","0">>),
              TitleTutorial, DurTenMin)

\* scores as VidA
VidB == Video(<<"b">>, Stats(<<"1","0","0","0","0","0">>, <<"1","0","0","0">>),
              TitleTutorial, DurTenMin)

\* VidA with another duration and nothing else changed
VidAWith(duration) == [VidA EXCEPT !.contentDetails.duration = duration]

\* VidA but half a minute long
VidShort == VidAWith(DurHalfMin)

\* more than 5000000 views
VidViral == Video(<<"v">>, Stats(<<"6","0","0","0","0","0","0">>, <<"0">>),
                  TitleLearn, DurOneHour)

\* a score that is not a whole number
VidHalf == Video(<<"h">>, Stats(<<"5","0","0","0","0">>, <<"1","2","5">>),
                 TitleTutorial, DurTenMin)

\* no viewCount, no likeCount, no duration: scored with the defaults
VidNoCounts ==
    [id |-> <<"n">>, statistics |-> EmptyDict,
     snippet |-> [title |-> TitleTutorial, description |-> DescText],
     contentDetails |-> EmptyDict]

\* viewCount is not a number
VidGarbled == Video(<<"g">>, Stats(<<"a","b","c">>, <<"1">>),
                    TitleTutorial, DurTenMin)

\* no description
VidNoDescription ==
    [VidA EXCEPT !.id = <<"d">>, !.snippet = [title |-> TitleTutorial]]

\* no contentDetails
VidNoDetails == DictDel([VidA EXCEPT !.id = <<"c">>], "contentDetails")

\* the duration does not parse
VidBadDuration == VidAWith(DurGarbled)

\* VidA lasting exactly 120 seconds, 3600 seconds and 3601 seconds
VidTwoMin == VidAWith(DurTwoMin)

VidOneHour == VidAWith(DurOneHour)

VidOverOneHour == VidAWith(DurOverOneHour)

VidBeginners ==
    Video(<<"e">>, Stats(<<"2","0","0","0","0","0">>, <<"5","0","0">>),
          TitleBeginners, DurTenMin)

VideoPool ==
    { VidA, VidB, VidShort, VidViral, VidHalf, VidNoCounts,
      VidGarbled, VidNoDescription, VidNoDetails, VidBadDuration,
      VidTwoMin, VidOneHour, VidOverOneHour, VidBeginners }

Queries == { QueryPython, QueryLearn }

\* int(stats.get(key, 0)) raises
CountRaises(stats, key) == key \in DOMAIN stats /\ ~IsNumber(stats[key])

\* int(stats.get(key, 0))
CountOf(stats, key) == IF key \in DOMAIN stats THEN IntOf(stats[key]) ELSE 0

\* whether lines 90-116 raise for a candidate
Raises(video) ==
    \/ "statistics" \notin DOMAIN video
    \/ CountRaises(video["statistics"], "viewCount")
    \/ CountRaises(video["statistics"], "likeCount")
    \/ "snippet" \notin DOMAIN video
    \/ "title" \notin DOMAIN video["snippet"]
    \/ "description" \notin DOMAIN video["snippet"]
    \/ "contentDetails" \notin DOMAIN video

\* Score with the tests of line 115 made <= 120 and >= 3600
Score_bounds_penalized(video, query) ==
    LET views == CountOf(video["statistics"], "viewCount")
        likes == CountOf(video["statistics"], "likeCount")
        title == lower(video["snippet"]["title"])
        s1 == IF views > 0
              THEN FracMin(Normalize(views, 100000), Fraction(50, 1))
              ELSE Fraction(0, 1)
        s2 == IF views > 0 THEN Normalize(likes * 100, views)
              ELSE Fraction(0, 1)
        query_words == Words(lower(query))
        title_matches ==
            Cardinality({i \in 1..Len(query_words) :
                            Contains(title, query_words[i])})
        title_edu_matches ==
            Cardinality({i \in 1..Len(educational_keywords) :
                            Contains(title, educational_keywords[i])})
        duration_seconds ==
            _parse_duration(Get(video["contentDetails"], "duration", << >>))
        penalty == IF duration_seconds <= 120 \/ duration_seconds >= 3600
                   THEN 10 ELSE 0
    IN  FracAdd(FracAdd(s1, s2),
                Fraction(title_matches * 10 + title_edu_matches * 5 - penalty, 1))

\* lines 90-116: the score of a candidate that does not raise
Score(video, query) ==
    LET views == CountOf(video["statistics"], "viewCount")
        likes == CountOf(video["statistics"], "likeCount")
        title == lower(video["snippet"]["title"])
        s1 == IF views > 0
              THEN FracMin(Normalize(views, 100000), Fraction(50, 1))
              ELSE Fraction(0, 1)
        s2 == IF views > 0 THEN Normalize(likes * 100, views)
              ELSE Fraction(0, 1)
        query_words == Words(lower(query))
        title_matches ==
            Cardinality({i \in 1..Len(query_words) :
                            Contains(title, query_words[i])})
        title_edu_matches ==
            Cardinality({i \in 1..Len(educational_keywords) :
                            Contains(title, educational_keywords[i])})
        duration_seconds ==
            _parse_duration(Get(video["contentDetails"], "duration", << >>))
        penalty == IF duration_seconds < 120 \/ duration_seconds > 3600
                   THEN 10 ELSE 0
    IN  FracAdd(FracAdd(s1, s2),
                Fraction(title_matches * 10 + title_edu_matches * 5 - penalty, 1))

\* lines 88-124 with 'break' in place of 'continue' in the except branch
RECURSIVE ScoredVideos_stop_at_error(_, _)
ScoredVideos_stop_at_error(vs, query) ==
    IF vs = << >> \/ Raises(Head(vs)) THEN << >>
    ELSE <<[video |-> Head(vs), score |-> Score(Head(vs), query)]>>
         \o ScoredVideos_stop_at_error(Tail(vs), query)

\* lines 88-124: scored_videos, a candidate that raises is skipped
RECURSIVE ScoredVideos(_, _)
ScoredVideos(vs, query) ==
    IF vs = << >> THEN << >>
    ELSE LET rest == ScoredVideos(SubSeq(vs, 1, Len(vs) - 1), query)
             video == vs[Len(vs)]
         IN  IF Raises(video) THEN rest
             ELSE Append(rest, [video |-> video, score |-> Score(video, query)])

\* InsertDesc putting x before the entries of equal score
InsertDesc_before_equal(sorted, x) ==
    LET before == {i \in 1..Len(sorted) : FracLess(x.score, sorted[i].score)}
        k == IF before = {} THEN 0 ELSE SetMax(before)
    IN  SubSeq(sorted, 1, k) \o <<x>> \o SubSeq(sorted, k + 1, Len(sorted))

\* x put into a list sorted by falling score, after the entries whose score is
\* not lower: list.sort is stable, also with reverse=True
InsertDesc(sorted, x) ==
    LET before == {i \in 1..Len(sorted) : ~FracLess(sorted[i].score, x.score)}
        k == IF before = {} THEN 0 ELSE SetMax(before)
    IN  SubSeq(sorted, 1, k) \o <<x>> \o SubSeq(sorted, k + 1, Len(sorted))

\* line 127: scored_videos.sort(key=lambda x: x['score'], reverse=True)
RECURSIVE SortDesc(_)
SortDesc(scored) ==
    IF scored = << >> THEN << >>
    ELSE InsertDesc(SortDesc(SubSeq(scored, 1, Len(scored) - 1)),
                    scored[Len(scored)])

\* the return value None
NoneResult == [none |-> TRUE]

\* YouTubeService._select_best_video
_select_best_video(vs, query) ==
    IF vs = << >> THEN NoneResult
    ELSE LET scored_videos == ScoredVideos(vs, query)
         IN  IF scored_videos # << >>
             THEN SortDesc(scored_videos)[1].video
             ELSE NoneResult

InitVideo ==
    /\ \E n \in 0..MaxVideos : videos \in [1..n -> VideoPool]
    /\ search_query \in Queries
    /\ best_video = NotCalled

SelectBestVideo ==
    /\ best_video = NotCalled
    /\ best_video' = _select_best_video(videos, search_query)
    /\ UNCHANGED <<videos, search_query>>
    /\ UNCHANGED notVideo

NextVideo == SelectBestVideo

\* ------------------------------------------------------------------------
\* YouTubeService._parse_duration called on its own
\* ------------------------------------------------------------------------
\* a part of a duration text: the text before a unit letter, or no part
Part(text) == [present |-> TRUE, text |-> text]

NoPart == [present |-> FALSE, text |-> << >>]

HoursParts == { NoPart, Part(<<"1">>), Part(<<"2">>), Part(<<"x">>), Part(<< >>) }

MinutesParts ==
    { NoPart, Part(<<"5">>), Part(<<"5","9">>), Part(<<"x">>), Part(<< >>) }

SecondsParts ==
    { NoPart, Part(<<"7">>), Part(<<"3","0">>), Part(<<"x">>), Part(<< >>),
      Part(<<"1",".","5">>) }

\* text without a unit letter at the end of the duration text
BareTexts == { << >>, <<"5">> }

\* a part and its unit letter as text
PartText(part, unit) == IF part.present THEN part.text \o <<unit>> ELSE << >>

\* the duration text put together from its parts
DurationText(parts) ==
    (IF parts.prefix THEN <<"P","T">> ELSE << >>)
    \o PartText(parts.hours, "H") \o PartText(parts.minutes, "M")
    \o PartText(parts.seconds, "S") \o parts.bare

\* lines 142-163: every exception of the body is caught, so the call returns
ParseDurationCall(text) == [pc |-> "returned", value |-> _parse_duration(text)]

InitDuration ==
    /\ durParts \in [prefix : BOOLEAN, hours : HoursParts,
                      minutes : MinutesParts, seconds : SecondsParts,
                      bare : BareTexts]
    /\ durParts.bare # << >> =>
          ~(durParts.hours.present \/ durParts.minutes.present
            \/ durParts.seconds.present)
    /\ duration_text = DurationText(durParts)
    /\ parsed_seconds = 0
    /\ durPc = "start"

ParseDuration ==
    /\ durPc = "start"
    /\ durPc' = ParseDurationCall(duration_text).pc
    /\ parsed_seconds' = ParseDurationCall(duration_text).value
    /\ UNCHANGED <<durParts, duration_text>>
    /\ UNCHANGED notDuration

NextDuration == ParseDuration

\* ------------------------------------------------------------------------
\* utils/quiz_generator.shuffle_quiz_options and validate_quiz_structure
\* ------------------------------------------------------------------------
OptionLetters == <<"A", "B", "C", "D">>

\* the quiz dicts offered: option texts that repeat or are empty, and a
\* correct_answer that is uppercase, lowercase, not a letter A-D, or missing
ShuffleQuizFields ==
    [question : {<<"Q">>},
     option_a : {<<"x">>, <<"y">>}, option_b : {<<"x">>, <<"y">>},
     option_c : {<<"y">>, <<"z">>}, option_d : {<<"z">>, << >>},
     correct_answer : {<<"A">>, <<"C">>, <<"D">>, <<"b">>, <<"E">>}]

ShuffleQuizzes ==
    ShuffleQuizFields \cup {DictDel(q, "correct_answer") : q \in ShuffleQuizFields}

\* options.get(correct_answer, ''): the keys of options are 'A', 'B', 'C', 'D'
OptionsGet(options, correct_answer) ==
    IF \E i \in 1..4 : correct_answer = <<OptionLetters[i]>>
    THEN options[CHOOSE i \in 1..4 : correct_answer = <<OptionLetters[i]>>]
    ELSE << >>

\* shuffle_quiz_options when random.shuffle orders the option texts by perm
shuffle_quiz_options(q, perm) ==
    LET options == << Get(q, "option_a", << >>), Get(q, "option_b", << >>),
                      Get(q, "option_c", << >>), Get(q, "option_d", << >> ) >>
        correct_answer == Get(q, "correct_answer", <<"A">>)
        correct_text == OptionsGet(options, correct_answer)
        option_texts == [i \in 1..4 |-> options[perm[i]]]
        shuffled ==
            DictSet(DictSet(DictSet(DictSet(q,
                "option_a", option_texts[1]), "option_b", option_texts[2]),
                "option_c", option_texts[3]), "option_d", option_texts[4])
        found == {i \in 1..4 : option_texts[i] = correct_text}
    IN  IF found # {}
        THEN DictSet(shuffled, "correct_answer", <<OptionLetters[SetMin(found)]>>)
        ELSE shuffled

\* utils/quiz_generator.validate_quiz_structure
validate_quiz_structure(q) ==
    /\ \A field \in required_fields : Truthy(q, field)
    /\ \E i \in 1..4 : upper(q["correct_answer"]) = <<OptionLetters[i]>>

InitShuffle ==
    /\ input_quiz \in ShuffleQuizzes
    /\ new_quiz = NotCalled

\* the call: random.shuffle may leave the texts in any order
ShuffleQuizOptions ==
    /\ new_quiz = NotCalled
    /\ \E perm \in Permutations(1..4) :
          new_quiz' = shuffle_quiz_options(input_quiz, perm)
    /\ UNCHANGED input_quiz
    /\ UNCHANGED notShuffle

NextShuffle == ShuffleQuizOptions

\* ------------------------------------------------------------------------
\* generate_quiz_feedback: utils/quiz_generator.py and app.py
\* ------------------------------------------------------------------------
\* a >= b for fractions
FracGeq(a, b) == ~FracLess(a, b)

\* the bounds either version compares the percentage with
FeedbackBounds == {40, 50, 60, 70, 75, 90}

\* the percentages offered: the whole numbers 0..100, and one tenth below and
\* above each bound (the utils percentage has one decimal place)
FeedbackPercentages ==
    {Fraction(n, 1) : n \in 0..100} \cup
    {Fraction(10 * b - 1, 10) : b \in FeedbackBounds} \cup
    {Fraction(10 * b + 1, 10) : b \in FeedbackBounds}

\* utils/quiz_generator.generate_quiz_feedback with > where the code has >=
generate_quiz_feedback_exclusive(data) ==
    LET percentage == data.percentage
    IN  IF FracLess(Fraction(90, 1), percentage)
        THEN "Outstanding! You've mastered this topic!"
        ELSE IF FracLess(Fraction(75, 1), percentage)
        THEN "Great job! You have a solid understanding of the material."
        ELSE IF FracLess(Fraction(60, 1), percentage)
        THEN "Good work! You're making progress. Review the areas you missed."
        ELSE IF FracLess(Fraction(40, 1), percentage)
        THEN "Keep studying! You're on the right track but need more practice."
        ELSE "Don't give up! Review the content and try again."

\* utils/quiz_generator.generate_quiz_feedback
generate_quiz_feedback(data) ==
    LET percentage == data.percentage
    IN  IF FracGeq(percentage, Fraction(90, 1))
        THEN "Outstanding! You've mastered this topic!"
        ELSE IF FracGeq(percentage, Fraction(75, 1))
        THEN "Great job! You have a solid understanding of the material."
        ELSE IF FracGeq(percentage, Fraction(60, 1))
        THEN "Good work! You're making progress. Review the areas you missed."
        ELSE IF FracGeq(percentage, Fraction(40, 1))
        THEN "Keep studying! You're on the right track but need more practice."
        ELSE "Don't give up! Review the content and try again."

\* app.generate_quiz_feedback
app_generate_quiz_feedback(data) ==
    LET percentage == data.percentage
    IN  IF FracGeq(percentage, Fraction(90, 1))
        THEN "Excellent! You have mastered this topic!"
        ELSE IF FracGeq(percentage, Fraction(70, 1))
        THEN "Good job! You have a solid understanding."
        ELSE IF FracGeq(percentage, Fraction(50, 1))
        THEN "Not bad, but consider reviewing the material."
        ELSE "Keep learning! Review the content and try again."

\* one call: the version called, the percentage passed and the message returned
FeedbackCall(version, percentage) ==
    [version |-> version, percentage |-> percentage,
     message |-> IF version = "utils"
                 THEN generate_quiz_feedback([percentage |-> percentage])
                 ELSE app_generate_quiz_feedback([percentage |-> percentage])]

InitFeedback == first_feedback = NotCalled /\ second_feedback = NotCalled

\* a call of the utils version
GenerateFeedbackUtils(percentage) ==
    /\ second_feedback = NotCalled
    /\ IF first_feedback = NotCalled
       THEN /\ first_feedback' = FeedbackCall("utils", percentage)
            /\ UNCHANGED second_feedback
       ELSE /\ second_feedback' = FeedbackCall("utils", percentage)
            /\ UNCHANGED first_feedback
    /\ UNCHANGED notFeedback

\* a call of the app.py version
GenerateFeedbackApp(percentage) ==
    /\ second_feedback = NotCalled
    /\ IF first_feedback = NotCalled
       THEN /\ first_feedback' = FeedbackCall("app", percentage)
            /\ UNCHANGED second_feedback
       ELSE /\ second_feedback' = FeedbackCall("app", percentage)
            /\ UNCHANGED first_feedback
    /\ UNCHANGED notFeedback

NextFeedback ==
    \/ \E percentage \in FeedbackPercentages : GenerateFeedbackUtils(percentage)
    \/ \E percentage \in FeedbackPercentages : GenerateFeedbackApp(percentage)

\* ------------------------------------------------------------------------
\* DatabaseService: services/db_service.py over the tables of
\* database/models.py
\* ------------------------------------------------------------------------
\* rows a table may hold in the model
MaxRows == 2

\* the database before init_db's tables hold a row
EmptyDb ==
    [users |-> << >>, courses |-> << >>, modules |-> << >>,
     subtopics |-> << >>, quizzes |-> << >>, quiz_seq |-> 0]

\* the orders a query with order_by(order_index) may return rows in: every
\* arrangement with order_index ascending (rows with equal order_index come
\* in an order the database chooses)
OrderBy(rows) ==
    { [i \in 1..Len(rows) |-> rows[f[i]]] :
        f \in { g \in Permutations(1..Len(rows)) :
                  \A i, j \in 1..Len(rows) :
                      i < j => rows[g[i]].order_index <= rows[g[j]].order_index } }

\* lines 88-94: the lists get_course_modules may return
get_course_modules(d, course_id) ==
    OrderBy(SelectSeq(d.modules, LAMBDA row : row.course_id = course_id))

\* lines 140-146: the lists get_module_subtopics may return
get_module_subtopics(d, module_id) ==
    OrderBy(SelectSeq(d.subtopics, LAMBDA row : row.module_id = module_id))

\* lines 181-187: the lists get_subtopic_quizzes may return
get_subtopic_quizzes(d, subtopic_id) ==
    OrderBy(SelectSeq(d.quizzes, LAMBDA row : row.subtopic_id = subtopic_id))

\* None where a row is expected: no row has id 0
NoRow == [id |-> 0]

\* lines 113-119: the row with the id, or None
get_subtopic(d, subtopic_id) ==
    LET found == SelectSeq(d.subtopics, LAMBDA row : row.id = subtopic_id)
    IN  IF found = << >> THEN NoRow ELSE found[1]

\* lines 148-155
is_subtopic_generated(d, subtopic_id) ==
    LET found == SelectSeq(d.subtopics, LAMBDA row : row.id = subtopic_id)
    IN  IF found = << >> THEN FALSE ELSE found[1].is_generated = 1

\* lines 42-52
create_course(d, user_id, title) ==
    [d EXCEPT !.courses =
        Append(@, [id |-> Len(@) + 1, user_id |-> user_id, title |-> title])]

\* lines 70-86
create_module(d, course_id, title, order_index) ==
    [d EXCEPT !.modules =
        Append(@, [id |-> Len(@) + 1, course_id |-> course_id,
                   title |-> title, order_index |-> order_index])]

\* lines 96-111
create_subtopic(d, module_id, title, order_index) ==
    [d EXCEPT !.subtopics =
        Append(@, SubtopicRow(Len(@) + 1, module_id, title, order_index))]

\* update_subtopic_content with line 134 switching the flag instead of
\* setting it
update_subtopic_content_toggle(d, subtopic_id, content, youtube_keywords, video_url, video_title) ==
    [d EXCEPT !.subtopics =
        [i \in 1..Len(@) |->
            IF @[i].id = subtopic_id
            THEN [@[i] EXCEPT !.content = content,
                              !.youtube_keywords = youtube_keywords,
                              !.video_url = video_url,
                              !.video_title = video_title,
                              !.is_generated = 1 - @]
            ELSE @[i]]]

\* lines 121-138: the row with the id, if there is one, gets the content, the
\* keywords, the video and is_generated 1
update_subtopic_content(d, subtopic_id, content, youtube_keywords, video_url, video_title) ==
    [d EXCEPT !.subtopics =
        [i \in 1..Len(@) |->
            IF @[i].id = subtopic_id
            THEN [@[i] EXCEPT !.content = content,
                              !.youtube_keywords = youtube_keywords,
                              !.video_url = video_url,
                              !.video_title = video_title,
                              !.is_generated = 1]
            ELSE @[i]]]

\* lines 157-179: quiz is the dict of the question, the options, the
\* correct answer and the explanation
create_quiz(d, subtopic_id, quiz, order_index) ==
    [d EXCEPT !.quiz_seq = @ + 1,
              !.quizzes =
                  Append(@, [id |-> d.quiz_seq + 1, subtopic_id |-> subtopic_id,
                             quiz |-> quiz, order_index |-> order_index])]

\* lines 189-196
delete_subtopic_quizzes(d, subtopic_id) ==
    [d EXCEPT !.quizzes =
        SelectSeq(@, LAMBDA row : row.subtopic_id # subtopic_id)]

\* create_full_course, lines 213-236: the database as the transaction sees it
\* when the first nmodules modules of the outline and their subtopics are
\* added after the course
FullCourseAdded(d, user_id, course_title, course_outline, nmodules) ==
    LET course_id == Len(d.courses) + 1
        outline == SubSeq(course_outline, 1, nmodules)
    IN  [d EXCEPT
            !.courses = Append(@, [id |-> course_id, user_id |-> user_id,
                                   title |-> course_title]),
            !.modules = @ \o NewModuleRows(outline, course_id, Len(@) + 1),
            !.subtopics = @ \o SubtopicsBefore(outline, nmodules,
                                               Len(d.modules) + 1, Len(@) + 1)]

\* the database steps of create_full_course that may raise: the flush of the
\* course (line 215) is step 1, the flush of module m (line 225) is step
\* 1 + m, the commit (line 238) is the last
FullCourseSteps(course_outline) == 1..(Len(course_outline) + 2)

\* what the transaction holds when step k raises
FullCourseTransaction(d, user_id, course_title, course_outline, k) ==
    IF k = 1 THEN d
    ELSE IF k = Len(course_outline) + 2
    THEN FullCourseAdded(d, user_id, course_title, course_outline,
                         Len(course_outline))
    ELSE FullCourseAdded(d, user_id, course_title, course_outline, k - 2)

\* the except branch committing what was flushed instead of rolling it back
rollback_commits(before, transaction) == transaction

\* line 243, session.rollback(): the database is as it was before the call
rollback(before, transaction) == before

\* lines 198-246; fails is 0 when no step raises, else the step that raises.
\* The value is the database afterwards, whether the call raised, and the id
\* of the course returned
create_full_course(d, user_id, course_title, course_outline, fails) ==
    IF fails = 0
    THEN [db |-> FullCourseAdded(d, user_id, course_title, course_outline,
                                 Len(course_outline)),
          raised |-> FALSE, course_id |-> Len(d.courses) + 1]
    ELSE [db |-> rollback(d, FullCourseTransaction(d, user_id, course_title,
                                                   course_outline, fails)),
          raised |-> TRUE, course_id |-> 0]

\* no get_or_create_user call in progress
NoUserCalls == [c \in {} |-> [pc |-> "idle"]]

\* the value of last_call before the first call
NoCall == [op |-> "none"]

\* the outlines create_full_course is given: one or two modules with
\* none, one or two subtopics
ModX == <<"X">>

ModY == <<"Y">>

DbOutlines ==
    { << [key |-> ModX, value |-> << <<"s">> >>] >>,
      << [key |-> ModY, value |-> << <<"t">>, <<"s">> >>],
         [key |-> ModX, value |-> << >>] >>,
      << [key |-> ModX, value |-> << <<"s">> >>],
         [key |-> ModY, value |-> << <<"s">> >>] >> }

\* the texts update_subtopic_content is given
Contents == {"content"}

\* a quiz dict with every field
QuizDict(question, correct_answer) ==
    [question |-> question, option_a |-> <<"a">>, option_b |-> <<"b">>,
     option_c |-> <<"c">>, option_d |-> <<"d">>,
     correct_answer |-> correct_answer, explanation |-> <<"e">>]

\* the user every course belongs to
InitDb ==
    /\ db = [EmptyDb EXCEPT !.users = << [id |-> SessionUserId,
                                         username |-> "default_user"] >>]
    /\ last_call = NoCall
    /\ user_calls = NoUserCalls

DbCreateCourse ==
    /\ Len(db.courses) < MaxRows
    /\ db' = create_course(db, SessionUserId, Topic)
    /\ last_call' = [op |-> "create_course"]
    /\ UNCHANGED user_calls /\ UNCHANGED notDb

DbCreateModule(course_id, title, order_index) ==
    /\ Len(db.modules) < MaxRows
    /\ db' = create_module(db, course_id, title, order_index)
    /\ last_call' = [op |-> "create_module"]
    /\ UNCHANGED user_calls /\ UNCHANGED notDb

DbCreateSubtopic(module_id, title, order_index) ==
    /\ Len(db.subtopics) < MaxRows
    /\ db' = create_subtopic(db, module_id, title, order_index)
    /\ last_call' = [op |-> "create_subtopic"]
    /\ UNCHANGED user_calls /\ UNCHANGED notDb

DbUpdateSubtopicContent(subtopic_id, content) ==
    /\ db' = update_subtopic_content(db, subtopic_id, content, "keywords",
                                     None, None)
    /\ last_call' = [op |-> "update_subtopic_content"]
    /\ UNCHANGED user_calls /\ UNCHANGED notDb

DbCreateQuiz(subtopic_id, order_index) ==
    /\ db.quiz_seq < MaxRows
    /\ db' = create_quiz(db, subtopic_id, QuizDict(<<"q">>, <<"A">>), order_index)
    /\ last_call' = [op |-> "create_quiz"]
    /\ UNCHANGED user_calls /\ UNCHANGED notDb

DbDeleteSubtopicQuizzes(subtopic_id) ==
    /\ db' = delete_subtopic_quizzes(db, subtopic_id)
    /\ last_call' = [op |-> "delete_subtopic_quizzes"]
    /\ UNCHANGED user_calls /\ UNCHANGED notDb

DbCreateFullCourse(course_outline, fails) ==
    /\ Len(db.courses) < MaxRows
    /\ \E call \in {create_full_course(db, SessionUserId, Topic,
                                       course_outline, fails)} :
          /\ Len(call.db.modules) <= MaxRows
          /\ Len(call.db.subtopics) <= MaxRows
          /\ db' = call.db
          /\ last_call' = [op |-> "create_full_course",
                           course_outline |-> course_outline,
                           raised |-> call.raised,
                           course_id |-> call.course_id]
    /\ UNCHANGED user_calls /\ UNCHANGED notDb

\* the ids of the rows of a table
IdsOf(rows) == {rows[i].id : i \in 1..Len(rows)}

\* a foreign key names a row that exists (models.py lines 47, 65, 88); the
\* update is also called with an id that no row has
NextDb ==
    \/ DbCreateCourse
    \/ \E course_id \in IdsOf(db.courses) : DbCreateModule(course_id, ModX, 0)
    \/ \E module_id \in IdsOf(db.modules), order_index \in 0..1 :
          DbCreateSubtopic(module_id, <<"s">>, order_index)
    \/ \E subtopic_id \in IdsOf(db.subtopics) \cup {Len(db.subtopics) + 1},
          content \in Contents :
          DbUpdateSubtopicContent(subtopic_id, content)
    \/ \E subtopic_id \in IdsOf(db.subtopics) : DbCreateQuiz(subtopic_id, 0)
    \/ \E subtopic_id \in IdsOf(db.subtopics) :
          DbDeleteSubtopicQuizzes(subtopic_id)
    \/ \E course_outline \in DbOutlines :
          \E fails \in {0} \cup FullCourseSteps(course_outline) :
              DbCreateFullCourse(course_outline, fails)

\* ------------------------------------------------------------------------
\* DatabaseService.get_or_create_user, called by several sessions
\* ------------------------------------------------------------------------
\* the callers whose calls may overlap
MaxCallers == 2

Callers == 1..MaxCallers

\* the usernames typed into the sidebar (app.py line 123)
Usernames == {"default_user", "guest"}

\* line 32: session.query(User).filter_by(username=username).first()
query_user(d, username) ==
    IF \E i \in 1..Len(d.users) : d.users[i].username = username
    THEN d.users[CHOOSE i \in 1..Len(d.users) :
                     d.users[i].username = username]
    ELSE NoRow

\* models.py line 14, unique=True: the insert of a second row with a
\* username is refused
username_is_free(d, username) == query_user(d, username) = NoRow

\* lines 34-36: session.add(user) and session.commit(); the commit raises
\* IntegrityError when the username is taken (email is None, line 126 of
\* app.py passes none, and NULLs never collide)
commit_user(d, username) ==
    IF username_is_free(d, username)
    THEN [db |-> [d EXCEPT !.users = Append(@, [id |-> Len(d.users) + 1,
                                                username |-> username])],
          raised |-> FALSE]
    ELSE [db |-> d, raised |-> TRUE]

IdleCall == [pc |-> "idle", username |-> "none", user |-> NoRow]

\* an empty users table and no call started
InitUsers ==
    /\ db = EmptyDb
    /\ last_call = NoCall
    /\ user_calls = [c \in Callers |-> IdleCall]

\* what a step of get_or_create_user leaves alone
UsersFrame == UNCHANGED last_call /\ UNCHANGED notDb

\* lines 28-30: the call opens its own session
GetOrCreateUser(c, username) ==
    /\ user_calls[c].pc = "idle"
    /\ user_calls' = [user_calls EXCEPT
                         ![c] = [pc |-> "query", username |-> username,
                                 user |-> NoRow]]
    /\ UNCHANGED db
    /\ UsersFrame

\* lines 32-33 and, for a user that was found, line 38
QueryUser(c) ==
    /\ user_calls[c].pc = "query"
    /\ \E user \in {query_user(db, user_calls[c].username)} :
          user_calls' = [user_calls EXCEPT
                            ![c].user = user,
                            ![c].pc = IF user = NoRow THEN "add"
                                      ELSE "returned"]
    /\ UNCHANGED db
    /\ UsersFrame

\* lines 34-38: add, commit, refresh and return, or the commit raises
AddUser(c) ==
    /\ user_calls[c].pc = "add"
    /\ \E done \in {commit_user(db, user_calls[c].username)} :
          /\ db' = done.db
          /\ user_calls' =
                [user_calls EXCEPT
                    ![c].pc = IF done.raised THEN "raised" ELSE "returned",
                    ![c].user = IF done.raised THEN NoRow
                                ELSE done.db.users[Len(done.db.users)]]
    /\ UsersFrame

\* the caller has its answer and may call again (Login / Register pressed
\* again, line 125)
CallOver(c) ==
    /\ user_calls[c].pc = "returned"
    /\ user_calls' = [user_calls EXCEPT ![c] = IdleCall]
    /\ UNCHANGED db
    /\ UsersFrame

NextUsers ==
    \/ \E c \in Callers, username \in Usernames : GetOrCreateUser(c, username)
    \/ \E c \in Callers : QueryUser(c)
    \/ \E c \in Callers : AddUser(c)
    \/ \E c \in Callers : CallOver(c)

\* ------------------------------------------------------------------------
\* app.py: display_course, display_subtopic and display_quiz in a session
\* ------------------------------------------------------------------------
\* lines 22-31: st.session_state of a new session (after login)
FreshSession ==
    [current_course |-> NoRow, selected_subtopic |-> NoRow,
     quiz_answers |-> EmptyDict, show_quiz_results |-> FALSE]

\* no script run in progress: the page waits for a click
IdleRun ==
    [pc |-> "idle", content |-> None, keywords |-> None, video_url |-> None,
     video_title |-> None, quiz_data |-> << >>, i |-> 0,
     quiz_saved_count |-> 0]

\* nothing reported by a generation run
NoReport == [kind |-> "none", stage |-> "none", subtopic |-> 0]

\* the outline of the course the sessions work on: one module, two subtopics
AppOutline == << [key |-> ModX, value |-> << <<"s">>, <<"t">> >>] >>

\* the lists ai_service.generate_quiz returns: records _is_valid_quiz accepted
QuizDatas ==
    { << >>,
      << QuizDict(<<"q", "1">>, <<"A">>) >>,
      << QuizDict(<<"q", "1">>, <<"A">>), QuizDict(<<"q", "2">>, <<"B">>) >> }

\* the options of the radio button a user picks from (line 436)
AnswerChoices == { <<"A">>, <<"B">> }

\* lines 138-140: a course button of the sidebar
select_course(state, course) ==
    [state EXCEPT !.current_course = course, !.selected_subtopic = NoRow]

\* lines 229-231: the New Course button
new_course(state) ==
    [state EXCEPT !.current_course = NoRow, !.selected_subtopic = NoRow]

\* a subtopic button that leaves the answers of the quiz shown before
select_subtopic_keep_answers(state, subtopic) ==
    [state EXCEPT !.selected_subtopic = subtopic]

\* lines 248-255: a subtopic button of the course outline
select_subtopic(state, subtopic) ==
    [state EXCEPT !.selected_subtopic = subtopic,
                  !.quiz_answers = EmptyDict,
                  !.show_quiz_results = FALSE]

\* lines 287-290: the Back to Course Outline button
back_to_outline(state) ==
    [state EXCEPT !.selected_subtopic = NoRow,
                  !.quiz_answers = EmptyDict,
                  !.show_quiz_results = FALSE]

\* lines 434-443: the radio button of question i (counted from 0) holds answer
answer_question(state, i, answer) ==
    [state EXCEPT !.quiz_answers = DictSet(@, i, answer)]

\* the Submit Quiz button revealing the results whatever was answered
submit_quiz_unchecked(state, nquizzes) ==
    [state EXCEPT !.show_quiz_results = TRUE]

\* lines 447-451: the Submit Quiz button, for a quiz of nquizzes questions
submit_quiz(state, nquizzes) ==
    IF Cardinality(DOMAIN state.quiz_answers) < nquizzes
    THEN state
    ELSE [state EXCEPT !.show_quiz_results = TRUE]

\* lines 491-493: the Retake Quiz button
retake_quiz(state) ==
    [state EXCEPT !.quiz_answers = EmptyDict, !.show_quiz_results = FALSE]

\* lines 358-363: the record has the question, the options and the answer
QuizComplete(quiz) ==
    \A field \in {"question", "option_a", "option_b", "option_c", "option_d",
                  "correct_answer"} : Truthy(quiz, field)

\* lines 455-466: the dicts made of the quiz rows
quiz_dicts(rows) == [i \in 1..Len(rows) |-> rows[i].quiz]

\* the subtopic rows of a course, through its modules (lines 236-245)
CourseSubtopics(d, course) ==
    {d.subtopics[i] : i \in {j \in 1..Len(d.subtopics) :
        \E m \in 1..Len(d.modules) :
            /\ d.modules[m].id = d.subtopics[j].module_id
            /\ d.modules[m].course_id = course.id}}

\* display_subtopic reaches the tabs (line 394) and display_quiz finds
\* quizzes (lines 422-428): the session's copy of the subtopic is generated
QuizShown(state, d) ==
    /\ state.current_course # NoRow
    /\ state.selected_subtopic # NoRow
    /\ state.selected_subtopic.is_generated # 0
    /\ \E rows \in get_subtopic_quizzes(d, state.selected_subtopic.id) :
          rows # << >>

\* the score_data a run may compute for the page it draws: lines 454-468 when
\* the results are shown, else none
ResultsScores(state, d) ==
    IF QuizShown(state, d) /\ state.show_quiz_results
    THEN {app_calculate_quiz_score(state.quiz_answers, quiz_dicts(rows)) :
             rows \in get_subtopic_quizzes(d, state.selected_subtopic.id)}
    ELSE {NotCalled}

\* the course and its subtopics are stored, the user is at the home page
InitSessions(sessions, course_outline) ==
    /\ db = create_full_course(
                [EmptyDb EXCEPT !.users = << [id |-> SessionUserId,
                                              username |-> "default_user"] >>],
                SessionUserId, Topic, course_outline, 0).db
    /\ last_call = NoCall
    /\ user_calls = NoUserCalls
    /\ session_state = [s \in sessions |-> FreshSession]
    /\ run = [s \in sessions |-> IdleRun]
    /\ reported = [s \in sessions |-> NoReport]
    /\ score_view = [s \in sessions |-> NotCalled]
    /\ answered_since = [s \in sessions |-> [subtopic |-> 0,
                                             answers |-> EmptyDict]]
    /\ last_click = [session |-> 0, button |-> "none"]
    /\ quiz_origin = [id \in {} |-> 0]

\* one browser session
InitApp == InitSessions({1}, AppOutline)

\* two browser sessions of the same user on a course of one subtopic
InitAppTwo ==
    InitSessions({1, 2}, << [key |-> ModX, value |-> << <<"s">> >>] >>)

\* a click handled by a whole script run that changes the session only; the
\* run that follows draws the page and computes the score if it shows results
Click(s, button, state) ==
    /\ run[s].pc = "idle"
    /\ session_state' = [session_state EXCEPT ![s] = state]
    /\ last_click' = [session |-> s, button |-> button]
    /\ \E score \in ResultsScores(state, db) :
          score_view' = [score_view EXCEPT ![s] = score]
    /\ UNCHANGED <<db, quiz_origin>>
    /\ UNCHANGED notApp

SelectCourse(s, course) ==
    /\ Click(s, "course", select_course(session_state[s], course))
    /\ UNCHANGED <<run, reported, answered_since>>

NewCourse(s) ==
    /\ session_state[s].current_course # NoRow
    /\ Click(s, "new course", new_course(session_state[s]))
    /\ UNCHANGED <<run, reported, answered_since>>

\* lines 248-256 and, in the run that follows, line 295
SelectSubtopic(s, subtopic) ==
    /\ session_state[s].current_course # NoRow
    /\ session_state[s].selected_subtopic = NoRow
    /\ subtopic \in CourseSubtopics(db, session_state[s].current_course)
    /\ Click(s, "subtopic", select_subtopic(session_state[s], subtopic))
    /\ answered_since' = [answered_since EXCEPT
                             ![s] = [subtopic |-> subtopic.id,
                                     answers |-> EmptyDict]]
    /\ IF subtopic.is_generated = 0
       THEN /\ run' = [run EXCEPT ![s] = [IdleRun EXCEPT !.pc = "generate"]]
            /\ reported' = [reported EXCEPT ![s] = NoReport]
       ELSE UNCHANGED <<run, reported>>

BackToOutline(s) ==
    /\ session_state[s].current_course # NoRow
    /\ session_state[s].selected_subtopic # NoRow
    /\ Click(s, "back", back_to_outline(session_state[s]))
    /\ UNCHANGED <<run, reported, answered_since>>

\* any other widget of the page (the sidebar) starts a run: display_subtopic
\* comes to line 295 again with the session's copy of the subtopic
Rerun(s) ==
    /\ session_state[s].current_course # NoRow
    /\ session_state[s].selected_subtopic # NoRow
    /\ session_state[s].selected_subtopic.is_generated = 0
    /\ Click(s, "rerun", session_state[s])
    /\ run' = [run EXCEPT ![s] = [IdleRun EXCEPT !.pc = "generate"]]
    /\ reported' = [reported EXCEPT ![s] = NoReport]
    /\ UNCHANGED answered_since

AnswerQuestion(s, i, answer) ==
    /\ QuizShown(session_state[s], db)
    /\ ~session_state[s].show_quiz_results
    /\ \E rows \in get_subtopic_quizzes(
                      db, session_state[s].selected_subtopic.id) :
          i < Len(rows)
    /\ Click(s, "answer", answer_question(session_state[s], i, answer))
    /\ answered_since' = [answered_since EXCEPT
                             ![s].answers = DictSet(@, i, answer)]
    /\ UNCHANGED <<run, reported>>

SubmitQuiz(s) ==
    /\ QuizShown(session_state[s], db)
    /\ ~session_state[s].show_quiz_results
    /\ \E rows \in get_subtopic_quizzes(
                      db, session_state[s].selected_subtopic.id) :
          Click(s, "submit", submit_quiz(session_state[s], Len(rows)))
    /\ UNCHANGED <<run, reported, answered_since>>

RetakeQuiz(s) ==
    /\ QuizShown(session_state[s], db)
    /\ session_state[s].show_quiz_results
    /\ Click(s, "retake", retake_quiz(session_state[s]))
    /\ answered_since' = [answered_since EXCEPT ![s].answers = EmptyDict]
    /\ UNCHANGED <<run, reported>>

\* a step of the generation of display_subtopic that ends the run with
\* st.error (lines 390-392)
RunFails(s, stage) ==
    /\ run' = [run EXCEPT ![s] = IdleRun]
    /\ reported' = [reported EXCEPT
                       ![s] = [kind |-> "error", stage |-> stage,
                               subtopic |-> session_state[s].selected_subtopic.id]]

\* what a step of the generation leaves alone
GenerationFrame ==
    /\ UNCHANGED <<session_state, score_view, answered_since, last_click>>
    /\ UNCHANGED notApp

\* lines 298-322: ai_service.generate_subtopic_content returns or raises
GenerateContent(s, raises) ==
    /\ run[s].pc = "generate"
    /\ IF raises
       THEN RunFails(s, "content")
       ELSE /\ run' = [run EXCEPT ![s].pc = "keywords",
                                  ![s].content = "content"]
            /\ UNCHANGED reported
    /\ UNCHANGED <<db, quiz_origin>>
    /\ GenerationFrame

\* lines 324-336: ai_service.generate_youtube_keywords returns or raises, and
\* search_best_video returns a video or None (it catches what it raises)
GenerateKeywords(s, raises, video_url) ==
    /\ run[s].pc = "keywords"
    /\ IF raises
       THEN RunFails(s, "keywords")
       ELSE /\ run' = [run EXCEPT ![s].pc = "update",
                                  ![s].keywords = "keywords",
                                  ![s].video_url = video_url,
                                  ![s].video_title = video_url]
            /\ UNCHANGED reported
    /\ UNCHANGED <<db, quiz_origin>>
    /\ GenerationFrame

\* lines 338-344: update_subtopic_content commits or raises
StoreContent(s, raises) ==
    /\ run[s].pc = "update"
    /\ IF raises
       THEN RunFails(s, "update") /\ UNCHANGED db
       ELSE /\ db' = update_subtopic_content(
                         db, session_state[s].selected_subtopic.id,
                         run[s].content, run[s].keywords, run[s].video_url,
                         run[s].video_title)
            /\ run' = [run EXCEPT ![s].pc = "quiz"]
            /\ UNCHANGED reported
    /\ UNCHANGED quiz_origin
    /\ GenerationFrame

\* the quiz failure handled like a content failure: st.error and return
QuizFails_as_content_error(s, stage) == RunFails(s, stage)

\* lines 383-384: the exception of the quiz part is reported with st.warning
\* and the run goes on to line 386
QuizFails(s, stage) ==
    /\ run' = [run EXCEPT ![s].pc = "refresh"]
    /\ reported' = [reported EXCEPT
                       ![s] = [kind |-> "warning", stage |-> stage,
                               subtopic |-> session_state[s].selected_subtopic.id]]

\* lines 346-355: ai_service.generate_quiz returns a list or raises
GenerateQuiz(s, raises, quiz_data) ==
    /\ run[s].pc = "quiz"
    /\ IF raises
       THEN QuizFails(s, "quiz")
       ELSE /\ run' = [run EXCEPT ![s].pc = "save",
                                  ![s].quiz_data = quiz_data]
            /\ UNCHANGED reported
    /\ UNCHANGED <<db, quiz_origin>>
    /\ GenerationFrame

\* lines 357-376: one turn of the loop over quiz_data; create_quiz commits
\* a row or raises
CreateQuiz(s, raises) ==
    /\ run[s].pc = "save"
    /\ run[s].i < Len(run[s].quiz_data)
    /\ IF ~QuizComplete(run[s].quiz_data[run[s].i + 1])
       THEN /\ run' = [run EXCEPT ![s].i = @ + 1]
            /\ UNCHANGED <<db, quiz_origin, reported>>
       ELSE IF raises
       THEN QuizFails(s, "create_quiz") /\ UNCHANGED <<db, quiz_origin>>
       ELSE /\ db' = create_quiz(db, session_state[s].selected_subtopic.id,
                                 run[s].quiz_data[run[s].i + 1], run[s].i)
            /\ quiz_origin' =
                  [id \in DOMAIN quiz_origin \cup {db.quiz_seq + 1} |->
                      IF id = db.quiz_seq + 1 THEN s ELSE quiz_origin[id]]
            /\ run' = [run EXCEPT ![s].i = @ + 1,
                                  ![s].quiz_saved_count = @ + 1]
            /\ UNCHANGED reported
    /\ GenerationFrame

\* lines 378-381 after the loop, then lines 386-388: the session takes the
\* stored row as its selected subtopic and the page is drawn again
RefreshSubtopic(s) ==
    /\ \/ run[s].pc = "refresh"
       \/ run[s].pc = "save" /\ run[s].i = Len(run[s].quiz_data)
    /\ reported' =
          IF run[s].pc = "refresh" THEN reported
          ELSE [reported EXCEPT
                   ![s] = [kind |-> IF run[s].quiz_saved_count > 0
                                    THEN "success" ELSE "info",
                           stage |-> "none",
                           subtopic |-> session_state[s].selected_subtopic.id]]
    /\ session_state' =
          [session_state EXCEPT
              ![s].selected_subtopic =
                  get_subtopic(db, session_state[s].selected_subtopic.id)]
    /\ run' = [run EXCEPT ![s] = IdleRun]
    /\ UNCHANGED <<db, quiz_origin, score_view, answered_since, last_click>>
    /\ UNCHANGED notApp

NextApp ==
    \/ \E s \in DOMAIN session_state :
          \E c \in 1..Len(db.courses) : SelectCourse(s, db.courses[c])
    \/ \E s \in DOMAIN session_state : NewCourse(s)
    \/ \E s \in DOMAIN session_state :
          \E i \in 1..Len(db.subtopics) : SelectSubtopic(s, db.subtopics[i])
    \/ \E s \in DOMAIN session_state : BackToOutline(s)
    \/ \E s \in DOMAIN session_state : Rerun(s)
    \/ \E s \in DOMAIN session_state :
          \E i \in 0..1, answer \in AnswerChoices : AnswerQuestion(s, i, answer)
    \/ \E s \in DOMAIN session_state : SubmitQuiz(s)
    \/ \E s \in DOMAIN session_state : RetakeQuiz(s)
    \/ \E s \in DOMAIN session_state, raises \in BOOLEAN :
          GenerateContent(s, raises)
    \/ \E s \in DOMAIN session_state, raises \in BOOLEAN,
          video_url \in {None, "url"} : GenerateKeywords(s, raises, video_url)
    \/ \E s \in DOMAIN session_state, raises \in BOOLEAN : StoreContent(s, raises)
    \/ \E s \in DOMAIN session_state, raises \in BOOLEAN,
          quiz_data \in QuizDatas : GenerateQuiz(s, raises, quiz_data)
    \/ \E s \in DOMAIN session_state, raises \in BOOLEAN : CreateQuiz(s, raises)
    \/ \E s \in DOMAIN session_state : RefreshSubtopic(s)

\* two sessions: what they do up to the end of a generation run (answering
\* a quiz changes the session that answers only)
NextAppTwo ==
    \/ \E s \in DOMAIN session_state :
          \E c \in 1..Len(db.courses) : SelectCourse(s, db.courses[c])
    \/ \E s \in DOMAIN session_state :
          \E i \in 1..Len(db.subtopics) : SelectSubtopic(s, db.subtopics[i])
    \/ \E s \in DOMAIN session_state : BackToOutline(s)
    \/ \E s \in DOMAIN session_state : Rerun(s)
    \/ \E s \in DOMAIN session_state, raises \in BOOLEAN :
          GenerateContent(s, raises)
    \/ \E s \in DOMAIN session_state, raises \in BOOLEAN,
          video_url \in {None, "url"} : GenerateKeywords(s, raises, video_url)
    \/ \E s \in DOMAIN session_state, raises \in BOOLEAN : StoreContent(s, raises)
    \/ \E s \in DOMAIN session_state, raises \in BOOLEAN,
          quiz_data \in QuizDatas : GenerateQuiz(s, raises, quiz_data)
    \/ \E s \in DOMAIN session_state, raises \in BOOLEAN : CreateQuiz(s, raises)
    \/ \E s \in DOMAIN session_state : RefreshSubtopic(s)

\* ------------------------------------------------------------------------
\* Specifications: one per routine, the other routines at rest
\* ------------------------------------------------------------------------
QuizIdle ==
    /\ pc = "idle" /\ nread = 0 /\ lastBlank = FALSE /\ questions = << >>
    /\ current_question = EmptyDict /\ reading_explanation = FALSE
    /\ origin = NoOrigin /\ origins = << >> /\ optionsRead = {}
    /\ blockPos = Free /\ blockQuestions = << >> /\ explOpen = FALSE
    /\ lastMarker = FALSE

OutlineIdle ==
    /\ outPc = "idle" /\ outRead = 0 /\ outLastBlank = FALSE
    /\ modules = << >> /\ current_module = None /\ courses = << >>
    /\ moduleRows = << >> /\ subtopicRows = << >> /\ current_course = None
    /\ wellFormed = TRUE /\ outBlocks = << >> /\ reparsed = NotReparsed

ScoreIdle ==
    /\ answers = EmptyDict /\ quizzes = << >>
    /\ score_data = NotCalled /\ app_score_data = NotCalled

VideoIdle ==
    /\ videos = << >> /\ search_query = << >> /\ best_video = NotCalled

DurationIdle ==
    /\ durParts = [prefix |-> FALSE, hours |-> NoPart, minutes |-> NoPart,
                   seconds |-> NoPart, bare |-> << >>]
    /\ duration_text = << >> /\ parsed_seconds = 0 /\ durPc = "idle"

ShuffleIdle == input_quiz = EmptyDict /\ new_quiz = NotCalled

FeedbackIdle == first_feedback = NotCalled /\ second_feedback = NotCalled

RoutinesIdle ==
    /\ QuizIdle /\ OutlineIdle /\ ScoreIdle /\ VideoIdle
    /\ DurationIdle /\ ShuffleIdle

DbIdle == db = EmptyDb /\ last_call = NoCall /\ user_calls = NoUserCalls

\* no session is open
NoSessions == [s \in {} |-> NoRow]

AppIdle ==
    /\ session_state = NoSessions /\ run = NoSessions /\ reported = NoSessions
    /\ score_view = NoSessions /\ answered_since = NoSessions
    /\ last_click = [session |-> 0, button |-> "none"]
    /\ quiz_origin = [id \in {} |-> 0]

ServiceIdle == FeedbackIdle /\ DbIdle /\ AppIdle

\* the start of each specification: its routine called, the others at rest
QuizStart ==
    /\ InitQuiz /\ OutlineIdle /\ ScoreIdle /\ VideoIdle
    /\ DurationIdle /\ ShuffleIdle /\ ServiceIdle

QuizBlocksStart ==
    /\ InitQuizBlocks /\ OutlineIdle /\ ScoreIdle /\ VideoIdle
    /\ DurationIdle /\ ShuffleIdle /\ ServiceIdle

OutlineStart ==
    /\ InitOutline /\ QuizIdle /\ ScoreIdle /\ VideoIdle
    /\ DurationIdle /\ ShuffleIdle /\ ServiceIdle

ScoreStart ==
    /\ InitScore /\ QuizIdle /\ OutlineIdle /\ VideoIdle
    /\ DurationIdle /\ ShuffleIdle /\ ServiceIdle

VideoStart ==
    /\ InitVideo /\ QuizIdle /\ OutlineIdle /\ ScoreIdle
    /\ DurationIdle /\ ShuffleIdle /\ ServiceIdle

DurationStart ==
    /\ InitDuration /\ QuizIdle /\ OutlineIdle /\ ScoreIdle /\ VideoIdle
    /\ ShuffleIdle /\ ServiceIdle

FeedbackStart == InitFeedback /\ RoutinesIdle /\ DbIdle /\ AppIdle

DbStart == InitDb /\ RoutinesIdle /\ FeedbackIdle /\ AppIdle

AppStart == InitApp /\ RoutinesIdle /\ FeedbackIdle

AppTwoStart == InitAppTwo /\ RoutinesIdle /\ FeedbackIdle

UsersStart == InitUsers /\ RoutinesIdle /\ FeedbackIdle /\ AppIdle

ShuffleStart ==
    /\ InitShuffle /\ QuizIdle /\ OutlineIdle /\ ScoreIdle /\ VideoIdle
    /\ DurationIdle /\ ServiceIdle

SpecQuiz == QuizStart /\ [][NextQuiz]_vars

SpecQuizBlocks == QuizBlocksStart /\ [][NextQuizBlocks]_vars

SpecOutline == OutlineStart /\ [][NextOutline]_vars

SpecScore == ScoreStart /\ [][NextScore]_vars

SpecVideo == VideoStart /\ [][NextVideo]_vars

SpecDuration == DurationStart /\ [][NextDuration]_vars

SpecShuffle == ShuffleStart /\ [][NextShuffle]_vars

SpecFeedback == FeedbackStart /\ [][NextFeedback]_vars

SpecDb == DbStart /\ [][NextDb]_vars

SpecApp == AppStart /\ [][NextApp]_vars

SpecAppTwo == AppTwoStart /\ [][NextAppTwo]_vars

SpecUsers == UsersStart /\ [][NextUsers]_vars

\* ------------------------------------------------------------------------
\* Properties of _parse_quiz
\* ------------------------------------------------------------------------
\* the letter captured by group 1 of the Correct Answer pattern
CapturedLetter(line) ==
    line[SkipSpaces(line, IF line[15] = ":" THEN 16 ELSE 15)]

\* C1: reading a line 'Correct Answer: L' (any letter case of the words, colon
\* optional) with L one of A, B, C, D makes the buffer's correct_answer the
\* uppercased letter L.
C1_CorrectAnswerIsTheLetter ==
    [][\A raw \in QuizLines :
          (/\ ReadField(raw)
           /\ CorrectAnswerMatch(strip(raw))
           /\ CapturedLetter(strip(raw)) \in AtoD)
          => /\ "correct_answer" \in DOMAIN current_question'
             /\ current_question'["correct_answer"] =
                   <<ToUpper(CapturedLetter(strip(raw)))>>]_vars

\* C2: every record of the list has a non-empty question, four non-empty
\* options and a correct_answer that is one of A, B, C, D; a record exists only
\* if the input had a line for each of the four options.
C2_RecordsAreValid ==
    /\ \A i \in 1..Len(questions) :
          /\ \A field \in required_fields : Truthy(questions[i], field)
          /\ Len(questions[i]["correct_answer"]) = 1
          /\ questions[i]["correct_answer"][1] \in AtoD
    /\ optionsRead # OptionKeys => questions = << >>

\* C2 witness: a returned list with one record that has no explanation
C2_Witness ==
    /\ pc = "done"
    /\ Len(questions) = 1
    /\ "explanation" \notin DOMAIN questions[1]

\* C3: after a blank line the buffer is empty.
C3_BlankLineEmptiesBuffer ==
    (pc = "run" /\ lastBlank) => current_question = EmptyDict

\* C4: every emitted record takes its question, its four options and its
\* correct answer from one block.
C4_RecordFromOneBlock ==
    \A i \in 1..Len(origins) :
        \A field \in required_fields : origins[i][field] = {"cur"}

\* C11: for an input of N >= 1 complete quiz blocks separated by blank lines
\* the returned list has exactly N records, record i holding the question of
\* block i; the last block is emitted at end of input.
C11_BlocksYieldRecords ==
    (pc = "done" /\ blockPos # Free) =>
        /\ Len(questions) = Len(blockQuestions)
        /\ \A i \in 1..Len(questions) :
              i <= Len(blockQuestions) =>
                  questions[i]["question"] = blockQuestions[i]

\* C15: a line is appended to the explanation only while the Explanation line
\* is still open: no blank line and no recognized marker line (question
\* marker, option, Correct Answer) was read since the Explanation line.
C15_ExplanationEndsAtMarkerOrBlank ==
    [][\A raw \in QuizLines :
          (/\ ReadField(raw)
           /\ FieldStep(current_question, reading_explanation,
                        strip(raw)).appended
           /\ FieldStep(current_question, reading_explanation,
                        strip(raw)).wrote = "explanation")
          => explOpen]_vars

\* C16: reading a 'Question <number>' line (colon optional, any letter case)
\* appends the pending buffer to the list once if it is valid and drops it if
\* not, and leaves an empty buffer with explanation mode off, so that nothing
\* of the marker line is in any field.
C16_MarkerFlushesAndResets ==
    [][(nread' = nread + 1 /\ lastMarker')
          => /\ questions' =
                   IF \A field \in required_fields :
                          Truthy(current_question, field)
                   THEN Append(questions, current_question)
                   ELSE questions
             /\ current_question' = EmptyDict
             /\ reading_explanation' = FALSE]_vars

\* C16 witness: the seventh line was a question marker that flushed the
\* complete block of the six lines before it
C16_Witness ==
    /\ pc = "run" /\ blockPos = Free
    /\ nread = 7 /\ lastMarker
    /\ Len(questions) = 1
    /\ current_question = EmptyDict
    /\ ~reading_explanation

\* ------------------------------------------------------------------------
\* Properties of _parse_course_outline and the generation flow
\* ------------------------------------------------------------------------
\* C5 as claimed: every returned outline has at least one module, non-empty
\* module titles, at least one subtopic per module and non-empty subtopics.
C5_OutlineInvariant ==
    outPc = "returned" =>
        /\ Len(modules) >= 1
        /\ \A m \in 1..Len(modules) :
              /\ modules[m].key # << >>
              /\ Len(modules[m].value) >= 1
              /\ \A j \in 1..Len(modules[m].value) : modules[m].value[j] # << >>

\* C5 amended: in every returned outline every subtopic title is non-empty and
\* every module that has a subtopic has a non-empty title (the outline may be
\* empty, a title may be empty, a module may have no subtopic).
C5_SubtopicsNonEmpty ==
    outPc = "returned" =>
        \A m \in 1..Len(modules) :
            /\ \A j \in 1..Len(modules[m].value) : modules[m].value[j] # << >>
            /\ Len(modules[m].value) >= 1 => modules[m].key # << >>

\* C5 witness: a returned outline with an empty-titled module, a module
\* without subtopics and a module with two subtopics
C5_Witness ==
    /\ outPc = "returned"
    /\ \E m \in 1..Len(modules) : modules[m].key = << >>
    /\ \E m \in 1..Len(modules) :
          modules[m].key # << >> /\ Len(modules[m].value) = 0
    /\ \E m \in 1..Len(modules) : Len(modules[m].value) = 2

\* C6: a course is persisted only for an outline with 3 to 10 modules, each
\* with at least 2 subtopics.
C6_PersistedOutlineValidated ==
    courses # << >> => validate_course_outline(modules)

\* the titles of the blocks read are pairwise distinct
DistinctTitles ==
    \A i, j \in 1..Len(outBlocks) :
        outBlocks[i].key = outBlocks[j].key => i = j

\* the blocks of the input that have title t
BlocksTitled(t) == {i \in 1..Len(outBlocks) : outBlocks[i].key = t}

\* C12: for an input of N well-formed blocks with pairwise distinct titles the
\* returned mapping has exactly N keys, the titles in encounter order, and the
\* value of each is the list of its block's subtopics in encounter order.
C12_BlocksInEncounterOrder ==
    (outPc = "returned" /\ wellFormed /\ DistinctTitles) =>
        /\ Len(modules) = Len(outBlocks)
        /\ \A m \in 1..Len(modules) :
              m <= Len(outBlocks) =>
                  /\ modules[m].key = outBlocks[m].key
                  /\ modules[m].value = outBlocks[m].value

\* C12 witness: two blocks of distinct titles were returned, one of them with
\* two different subtopics
C12_Witness ==
    /\ outPc = "returned" /\ wellFormed /\ DistinctTitles
    /\ Len(outBlocks) >= 2
    /\ \E m \in 1..Len(outBlocks) :
          /\ Len(outBlocks[m].value) = 2
          /\ outBlocks[m].value[1] # outBlocks[m].value[2]
    /\ Len(modules) = Len(outBlocks)

\* C13: when a title occurs in more than one block, the returned mapping has
\* a single key for it and its value is the subtopic list of the last block
\* of that title; the subtopics of the earlier blocks are not in it.
C13_LastOccurrenceWins ==
    (outPc = "returned" /\ wellFormed) =>
        \A b \in 1..Len(outBlocks) :
            Cardinality(BlocksTitled(outBlocks[b].key)) > 1 =>
                /\ Cardinality(KeyIndex(modules, outBlocks[b].key)) = 1
                /\ \A m \in KeyIndex(modules, outBlocks[b].key) :
                      modules[m].value =
                          outBlocks[SetMax(BlocksTitled(outBlocks[b].key))].value

\* C13 witness: a title occurred twice, with a subtopic under the first
\* occurrence that the last occurrence does not list
C13_Witness ==
    /\ outPc = "returned" /\ wellFormed
    /\ \E i, j \in 1..Len(outBlocks) :
          /\ i < j
          /\ outBlocks[i].key = outBlocks[j].key
          /\ j = SetMax(BlocksTitled(outBlocks[j].key))
          /\ outBlocks[i].value # << >>
          /\ \E k \in 1..Len(outBlocks[i].value) :
                \A l \in 1..Len(outBlocks[j].value) :
                    outBlocks[j].value[l] # outBlocks[i].value[k]
          /\ \E m \in 1..Len(modules) :
                /\ modules[m].key = outBlocks[j].key
                /\ modules[m].value = outBlocks[j].value

\* C14: round trip: every returned outline, written as 'Module k: Title' lines
\* each followed by its '- Subtopic' lines and parsed again, gives an equal
\* structure: the same keys in the same order with the same subtopic lists.
C14_RoundTrip ==
    reparsed.called => reparsed.value = modules

\* C14 witness: the round trip of an outline with an empty title, a module
\* without subtopics and a module with two subtopics
C14_Witness ==
    /\ reparsed.called
    /\ \E m \in 1..Len(modules) : modules[m].key = << >>
    /\ \E m \in 1..Len(modules) :
          modules[m].key # << >> /\ Len(modules[m].value) = 0
    /\ \E m \in 1..Len(modules) : Len(modules[m].value) = 2
    /\ reparsed.value = modules

\* ------------------------------------------------------------------------
\* Properties of calculate_quiz_score
\* ------------------------------------------------------------------------
\* C7: utils.calculate_quiz_score counts position i exactly when answers holds
\* index i and its label equals quiz i's correct_answer ignoring case.
C7_CountsOnlySubmittedAnswers ==
    score_data # NotCalled =>
        score_data.correct =
            Cardinality({i \in 1..Len(quizzes) :
                /\ (i - 1) \in DOMAIN answers
                /\ upper(answers[i - 1]) =
                   upper(Get(quizzes[i], "correct_answer", << >>))})

\* f is the integer nearest to 100 * correct / total
NearestInteger(f, correct, total) ==
    /\ f.num % f.den = 0
    /\ 2 * (f.num * total - 100 * correct * f.den) <= total * f.den
    /\ 2 * (100 * correct * f.den - f.num * total) <= total * f.den

Scorable == {i \in 1..Len(videos) : ~Raises(videos[i])}

\* the positions of the scored candidates no other scored candidate beats
TopScored ==
    {i \in Scorable :
        \A j \in Scorable :
            ~FracLess(Score(videos[i], search_query),
                      Score(videos[j], search_query))}

\* C9: the result is the scored candidate with the maximum score, and among
\* several with the maximum score the first of the input list.
C9_FirstMaximum ==
    (best_video # NotCalled /\ Scorable # {}) =>
        best_video = videos[SetMin(TopScored)]

\* C9 witness: two candidates of different id share the maximum score, a third
\* scores lower, and the first of the two was returned
C9_Witness ==
    /\ best_video # NotCalled
    /\ Cardinality(TopScored) >= 2
    /\ TopScored # Scorable
    /\ \E i \in TopScored : videos[i] # videos[SetMin(TopScored)]
    /\ best_video = videos[SetMin(TopScored)]

\* C10: the result is None exactly when the list is empty or every candidate
\* raises; otherwise the candidates that raise are skipped and the result is
\* a scored candidate that no other scored candidate beats.
C10_NoneOnlyWithoutScorable ==
    best_video # NotCalled =>
        /\ best_video = NoneResult <=>
              (videos = << >> \/ \A i \in 1..Len(videos) : Raises(videos[i]))
        /\ best_video # NoneResult =>
              \E i \in TopScored : best_video = videos[i]

\* C10 witness: the first candidate raises, a later one is returned
C10_Witness ==
    /\ best_video # NotCalled /\ best_video # NoneResult
    /\ Len(videos) >= 2
    /\ Raises(videos[1])
    /\ \E i \in 2..Len(videos) : ~Raises(videos[i]) /\ best_video = videos[i]

\* the parsed duration of a candidate (lines 113-114)
DurationOf(video) ==
    _parse_duration(Get(video["contentDetails"], "duration", << >>))

\* two candidates identical except for the duration
SameButDuration(v, w) ==
    /\ "contentDetails" \in DOMAIN v /\ "contentDetails" \in DOMAIN w
    /\ "duration" \in DOMAIN v["contentDetails"]
    /\ "duration" \in DOMAIN w["contentDetails"]
    /\ v["contentDetails"]["duration"] # w["contentDetails"]["duration"]
    /\ [v EXCEPT !.contentDetails.duration = w["contentDetails"]["duration"]] = w

\* the pairs (i, j) of a two-candidate list of scored candidates that differ
\* in the duration only, i with a duration in 120..3600, j with one outside
DurationPairs ==
    {p \in (1..Len(videos)) \X (1..Len(videos)) :
        /\ Len(videos) = 2
        /\ p[1] # p[2]
        /\ SameButDuration(videos[p[1]], videos[p[2]])
        /\ ~Raises(videos[p[1]]) /\ ~Raises(videos[p[2]])
        /\ DurationOf(videos[p[1]]) >= 120
        /\ DurationOf(videos[p[1]]) <= 3600
        /\ \/ DurationOf(videos[p[2]]) < 120
           \/ DurationOf(videos[p[2]]) > 3600}

\* C17: of two scored candidates identical except for the duration, one with
\* a parsed duration in 120..3600 (bounds included) and one outside, the one
\* in the range scores exactly 10 higher and is the result, whichever of the
\* two is first in the list.
C17_InRangeDurationWins ==
    best_video # NotCalled =>
        \A p \in DurationPairs :
            /\ Score(videos[p[1]], search_query) =
                  FracAdd(Score(videos[p[2]], search_query), Fraction(10, 1))
            /\ best_video = videos[p[1]]

\* C17 witness: the candidate in the range is second in the list, lasts
\* exactly 120 or 3600 seconds, and was returned
C17_Witness ==
    /\ best_video # NotCalled
    /\ <<2, 1>> \in DurationPairs
    /\ DurationOf(videos[2]) \in {120, 3600}
    /\ best_video = videos[2]

\* a well-formed candidate: counts that are numbers, a title, a description
\* and a duration
WellFormedVideo(video) ==
    /\ ~Raises(video)
    /\ "viewCount" \in DOMAIN video["statistics"]
    /\ "likeCount" \in DOMAIN video["statistics"]
    /\ "duration" \in DOMAIN video["contentDetails"]

\* the eight educational keywords
EightKeywords ==
    { <<"t","u","t","o","r","i","a","l">>, <<"g","u","i","d","e">>,
      <<"c","o","u","r","s","e">>, <<"e","x","p","l","a","i","n","e","d">>,
      <<"l","e","a","r","n">>, <<"i","n","t","r","o","d","u","c","t","i","o","n">>,
      <<"b","e","g","i","n","n","e","r">>, <<"c","o","m","p","l","e","t","e">> }

\* min(views / 100000, 50) + (likes / views) * 100, both 0 when views = 0
ViewTerms(video) ==
    LET views == IntOf(video["statistics"]["viewCount"])
        likes == IntOf(video["statistics"]["likeCount"])
    IN  IF views = 0 THEN Fraction(0, 1)
        ELSE FracAdd(IF views >= 5000000 THEN Fraction(50, 1)
                     ELSE Normalize(views, 100000),
                     Normalize(100 * likes, views))

\* 10 for each query token and 5 for each keyword that the lowercased title
\* holds
TitleTerms(video, query) ==
    LET title == lower(video["snippet"]["title"])
        tokens == Words(lower(query))
    IN  10 * Cardinality({i \in 1..Len(tokens) : Contains(title, tokens[i])})
        + 5 * Cardinality({k \in EightKeywords : Contains(title, k)})

\* 10 when the duration is below 120 or above 3600 seconds
DurationPenalty(video) ==
    IF DurationOf(video) < 120 \/ DurationOf(video) > 3600 THEN 10 ELSE 0

FracEq(a, b) == a.num * b.den = b.num * a.den

\* C19: the score of a well-formed candidate is the sum of the view term, the
\* like term, 10 per query token in the title, 5 per educational keyword in
\* the title, minus 10 for a duration outside 120..3600; for the query
\* 'python tutorial' and the title 'Python Tutorial for Beginners' the title
\* terms add 30.
C19_ScoreIsSumOfTerms ==
    best_video # NotCalled =>
        \A i \in 1..Len(videos) :
            WellFormedVideo(videos[i]) =>
                /\ FracEq(Score(videos[i], search_query),
                          FracAdd(ViewTerms(videos[i]),
                                  Fraction(TitleTerms(videos[i], search_query)
                                           - DurationPenalty(videos[i]), 1)))
                /\ (/\ videos[i]["snippet"]["title"] = TitleBeginners
                    /\ search_query = QueryPython)
                   => FracEq(Score(videos[i], search_query),
                             FracAdd(ViewTerms(videos[i]),
                                     Fraction(30 - DurationPenalty(videos[i]), 1)))

\* C19 witness: the query 'python tutorial' with the candidate titled 'Python
\* Tutorial for Beginners', a candidate above 5000000 views, a candidate
\* whose score is not a whole number and one that takes the penalty
C19_Witness ==
    /\ best_video # NotCalled
    /\ search_query = QueryPython
    /\ \E i \in 1..Len(videos) :
          /\ WellFormedVideo(videos[i])
          /\ videos[i]["snippet"]["title"] = TitleBeginners
    /\ \E i \in 1..Len(videos) :
          /\ WellFormedVideo(videos[i])
          /\ \/ IntOf(videos[i]["statistics"]["viewCount"]) > 5000000
             \/ Score(videos[i], search_query).den > 1
    /\ \E i \in 1..Len(videos) :
          WellFormedVideo(videos[i]) /\ DurationPenalty(videos[i]) = 10

\* ------------------------------------------------------------------------
\* Properties of _parse_duration
\* ------------------------------------------------------------------------
\* the parts of the duration text that have a unit letter
UnitParts == {durParts.hours, durParts.minutes, durParts.seconds}

\* the value of a part: 0 when the part is missing
PartValue(part) == IF part.present THEN IntOf(part.text) ELSE 0

\* C18: _parse_duration never raises; for 'PT' followed by optional '<h>H',
\* '<m>M', '<s>S' parts it returns 3600*h + 60*m + s, a missing part counting
\* 0; it returns 0 when the text has no unit; it returns 0, never a partial
\* sum, when the text before some unit letter is not a number.
C18_DurationSeconds ==
    /\ durPc # "raised"
    /\ durPc = "returned" =>
          /\ (durParts.prefix /\ \A part \in UnitParts :
                                    part.present => IsNumber(part.text))
                => parsed_seconds =
                      3600 * PartValue(durParts.hours)
                      + 60 * PartValue(durParts.minutes)
                      + PartValue(durParts.seconds)
          /\ (\A part \in UnitParts : ~part.present) => parsed_seconds = 0
          /\ (\E part \in UnitParts : part.present /\ ~IsNumber(part.text))
                => parsed_seconds = 0

\* C18 witness: hours and seconds are numbers, the minutes are not, and the
\* call returned 0
C18_Witness ==
    /\ durPc = "returned"
    /\ durParts.prefix
    /\ durParts.hours.present /\ IsNumber(durParts.hours.text)
    /\ IntOf(durParts.hours.text) > 0
    /\ durParts.minutes.present /\ ~IsNumber(durParts.minutes.text)
    /\ durParts.seconds.present /\ IsNumber(durParts.seconds.text)
    /\ parsed_seconds = 0

\* ------------------------------------------------------------------------
\* Properties of shuffle_quiz_options
\* ------------------------------------------------------------------------
\* the option text stored under the correct_answer letter of a quiz
CorrectOptionText(q) == q[OptionKey(q["correct_answer"][1])]

\* C20: for every quiz validate_quiz_structure accepts and every order the
\* shuffle picks, the option text under the returned quiz's correct_answer
\* letter is the option text under the input quiz's correct_answer letter.
C20_ShuffleKeepsCorrectAnswer ==
    (new_quiz # NotCalled /\ validate_quiz_structure(input_quiz)) =>
        CorrectOptionText(new_quiz) = CorrectOptionText(input_quiz)

\* ------------------------------------------------------------------------
\* Properties of generate_quiz_feedback
\* ------------------------------------------------------------------------
\* the calls made so far
FeedbackCalls == {first_feedback, second_feedback} \ {NotCalled}

\* the tiers of each version as the claim lists them, lowest first: the
\* inclusive lower bound of a tier and its message (the lowest has no bound)
ClaimedTiers(version) ==
    IF version = "utils"
    THEN << [bound |-> 0,
             message |-> "Don't give up! Review the content and try again."],
            [bound |-> 40,
             message |-> "Keep studying! You're on the right track but need more practice."],
            [bound |-> 60,
             message |-> "Good work! You're making progress. Review the areas you missed."],
            [bound |-> 75,
             message |-> "Great job! You have a solid understanding of the material."],
            [bound |-> 90,
             message |-> "Outstanding! You've mastered this topic!"] >>
    ELSE << [bound |-> 0,
             message |-> "Keep learning! Review the content and try again."],
            [bound |-> 50,
             message |-> "Not bad, but consider reviewing the material."],
            [bound |-> 70,
             message |-> "Good job! You have a solid understanding."],
            [bound |-> 90,
             message |-> "Excellent! You have mastered this topic!"] >>

\* the place of a call's message among the tiers of its version (0 if none)
TierOf(call) ==
    LET tiers == ClaimedTiers(call.version)
        at == {t \in 1..Len(tiers) : tiers[t].message = call.message}
    IN  IF at = {} THEN 0 ELSE SetMax(at)

\* the highest tier whose bound the percentage reaches
HighestApplicable(call) ==
    LET tiers == ClaimedTiers(call.version)
    IN  SetMax({1} \cup
               {t \in 2..Len(tiers) :
                   FracGeq(call.percentage, Fraction(tiers[t].bound, 1))})

\* C21: each version returns the message of the highest tier whose inclusive
\* lower bound the percentage reaches (utils: 90, 75, 60, 40, else; app.py:
\* 90, 70, 50, else); so a percentage on a bound gets that bound's tier, and
\* of two calls of one version the higher percentage never gets the lower tier.
C21_FeedbackTiers ==
    /\ \A call \in FeedbackCalls : TierOf(call) = HighestApplicable(call)
    /\ \A c1, c2 \in FeedbackCalls :
          (c1.version = c2.version /\ ~FracLess(c2.percentage, c1.percentage))
              => TierOf(c1) <= TierOf(c2)

\* C21 witness: the utils version called with 75 and then with 74.9, and the
\* two calls got different tiers
C21_Witness ==
    /\ first_feedback # NotCalled /\ second_feedback # NotCalled
    /\ first_feedback.version = "utils" /\ second_feedback.version = "utils"
    /\ first_feedback.percentage = Fraction(75, 1)
    /\ second_feedback.percentage = Fraction(749, 10)
    /\ TierOf(first_feedback) = 4 /\ TierOf(second_feedback) = 3

\* ------------------------------------------------------------------------
\* The two versions of calculate_quiz_score side by side
\* ------------------------------------------------------------------------
\* C24: for the same answers and the same quiz list the utils version and the
\* app.py version of calculate_quiz_score return the same score and total.
C24_ScoreVersionsAgree ==
    (score_data # NotCalled /\ app_score_data # NotCalled) =>
        /\ score_data.score = app_score_data.score
        /\ score_data.total = app_score_data.total

\* ------------------------------------------------------------------------
\* Properties of DatabaseService
\* ------------------------------------------------------------------------
\* the is_generated column of the subtopic row with the id
IsGeneratedOf(d, subtopic_id) == get_subtopic(d, subtopic_id).is_generated

\* C25: a subtopic row is created with is_generated 0 (by create_subtopic or
\* create_full_course), only update_subtopic_content changes the flag, to 1,
\* and once is_subtopic_generated is true of a subtopic it stays true whatever
\* DatabaseService method is called next.
C25_IsGeneratedMonotonic ==
    [][/\ \A id \in IdsOf(db.subtopics) :
              /\ id \in IdsOf(db'.subtopics)
              /\ is_subtopic_generated(db, id) => is_subtopic_generated(db', id)
              /\ IsGeneratedOf(db', id) # IsGeneratedOf(db, id) =>
                     /\ last_call'.op = "update_subtopic_content"
                     /\ IsGeneratedOf(db', id) = 1
       /\ \A id \in IdsOf(db'.subtopics) \ IdsOf(db.subtopics) :
              /\ IsGeneratedOf(db', id) = 0
              /\ ~is_subtopic_generated(db', id)
              /\ last_call'.op \in {"create_subtopic", "create_full_course"}
      ]_vars

\* C25 witness: subtopic 1 was generated, a quiz was stored, and the quizzes
\* of a subtopic were deleted by the call made last
C25_Witness ==
    /\ is_subtopic_generated(db, 1)
    /\ Len(db.subtopics) = 2
    /\ db.quiz_seq >= 1
    /\ last_call.op = "delete_subtopic_quizzes"

\* the rows read back are those of the outline, in its order
ReadsBackAs(d, course_id, course_outline) ==
    \A mods \in get_course_modules(d, course_id) :
        /\ Len(mods) = Len(course_outline)
        /\ \A m \in 1..Len(mods) :
              /\ mods[m].title = course_outline[m].key
              /\ mods[m].order_index = m - 1
              /\ \A subs \in get_module_subtopics(d, mods[m].id) :
                    /\ Len(subs) = Len(course_outline[m].value)
                    /\ \A j \in 1..Len(subs) :
                          /\ subs[j].title = course_outline[m].value[j]
                          /\ subs[j].order_index = j - 1

Sessions == DOMAIN session_state

\* every question of the quiz of the session's subtopic has an answer in the
\* answers given
AllAnswered(state, d) ==
    \A rows \in get_subtopic_quizzes(d, state.selected_subtopic.id) :
        \A i \in 0..(Len(rows) - 1) : i \in DOMAIN state.quiz_answers

\* C22: Retake Quiz, Back to Course Outline and a subtopic button leave
\* quiz_answers empty and show_quiz_results false; and whenever the quiz of a
\* subtopic is displayed or scored, quiz_answers holds exactly the answers
\* given for that subtopic since it was selected or its quiz retaken.
C22_AnswersOfThisSubtopicOnly ==
    \A s \in Sessions :
        /\ (last_click.session = s /\
            last_click.button \in {"retake", "back", "subtopic"}) =>
               /\ session_state[s].quiz_answers = EmptyDict
               /\ ~session_state[s].show_quiz_results
        /\ (run[s].pc = "idle" /\ QuizShown(session_state[s], db)) =>
               /\ answered_since[s].subtopic =
                      session_state[s].selected_subtopic.id
               /\ session_state[s].quiz_answers = answered_since[s].answers

\* C22 witness: the quiz of subtopic 2 is displayed with one answer given,
\* while subtopic 1 has a quiz of its own
C22_Witness ==
    /\ run[1].pc = "idle" /\ QuizShown(session_state[1], db)
    /\ session_state[1].selected_subtopic.id = 2
    /\ DOMAIN session_state[1].quiz_answers = {1}
    /\ last_click.button = "answer"
    /\ \E rows \in get_subtopic_quizzes(db, 1) : Len(rows) = 2

\* C26: show_quiz_results turns true only by Submit Quiz, with an answer in
\* quiz_answers for every question of the selected subtopic's quiz; and when
\* the results view computes a score, every question index has an answer.
C26_ResultsOnlyWhenAllAnswered ==
    [][\A s \in Sessions :
          /\ (~session_state[s].show_quiz_results /\
              session_state'[s].show_quiz_results) =>
                 /\ last_click' = [session |-> s, button |-> "submit"]
                 /\ AllAnswered(session_state'[s], db')
          /\ score_view'[s] # NotCalled =>
                 /\ AllAnswered(session_state'[s], db')
                 /\ \A rows \in get_subtopic_quizzes(
                                    db', session_state'[s].selected_subtopic.id) :
                        score_view'[s].total = Len(rows)
      ]_vars

\* C26 witness: the results view scored a quiz of two questions, one right
C26_Witness ==
    /\ score_view[1] # NotCalled
    /\ score_view[1].total = 2 /\ score_view[1].score = 1
    /\ session_state[1].show_quiz_results
    /\ DOMAIN session_state[1].quiz_answers = {0, 1}

\* C28: when generate_quiz or create_quiz raises, the content is already
\* stored: the subtopic is generated with its content and keywords, the run
\* reports a warning and not an error, and no run of generation starts for a
\* subtopic that is stored as generated; when the content or the keyword
\* generation raises, the run reports an error, nothing is stored and the
\* subtopic is not generated.
C28_ContentStoredBeforeQuiz ==
    \A s \in Sessions :
        LET stored == get_subtopic(db, reported[s].subtopic)
        IN  /\ reported[s].stage \in {"quiz", "create_quiz"} =>
                   /\ reported[s].kind = "warning"
                   /\ stored.is_generated = 1
                   /\ stored.content = "content"
                   /\ stored.youtube_keywords = "keywords"
            /\ reported[s].kind = "warning" =>
                   reported[s].stage \in {"quiz", "create_quiz"}
            /\ reported[s].stage \in {"content", "keywords"} =>
                   /\ reported[s].kind = "error"
                   /\ stored.is_generated = 0
                   /\ stored.content = None
                   /\ stored.video_url = None
            /\ run[s].pc \in {"generate", "keywords", "update"} =>
                   ~is_subtopic_generated(
                       db, session_state[s].selected_subtopic.id)

\* C28 witness: create_quiz raised at the second question; the run is over,
\* the session holds the stored subtopic and its quiz of one question is shown
C28_Witness ==
    /\ reported[1].kind = "warning" /\ reported[1].stage = "create_quiz"
    /\ run[1].pc = "idle"
    /\ session_state[1].selected_subtopic.id = reported[1].subtopic
    /\ session_state[1].selected_subtopic.is_generated = 1
    /\ \E rows \in get_subtopic_quizzes(db, reported[1].subtopic) :
          Len(rows) = 1
    /\ last_click.button = "answer"

\* the quiz rows of a subtopic
QuizRowsOf(d, subtopic_id) ==
    {d.quizzes[i] : i \in {j \in 1..Len(d.quizzes) :
                              d.quizzes[j].subtopic_id = subtopic_id}}

\* C30: whatever two sessions do, the quiz rows of a subtopic were stored by
\* one generation run and no two of them have the same order_index.
C30_QuizStoredOnce ==
    \A i \in 1..Len(db.subtopics) :
        \A q1, q2 \in QuizRowsOf(db, db.subtopics[i].id) :
            /\ quiz_origin[q1.id] = quiz_origin[q2.id]
            /\ q1.id # q2.id => q1.order_index # q2.order_index

\* ------------------------------------------------------------------------
\* get_or_create_user under overlapping calls
\* ------------------------------------------------------------------------
\* the rows of the users table with a username
UserRowsOf(d, username) ==
    {i \in 1..Len(d.users) : d.users[i].username = username}

\* C29: however get_or_create_user calls with the same username interleave,
\* at most one user row has that username, no call raises, and a call that
\* returned gave back the stored row of its username.
C29_OneUserRowAndNoCallRaises ==
    /\ \A username \in Usernames :
           Cardinality(UserRowsOf(db, username)) <= 1
    /\ \A c \in DOMAIN user_calls :
           /\ user_calls[c].pc # "raised"
           /\ user_calls[c].pc = "returned" =>
                  user_calls[c].user = query_user(db, user_calls[c].username)

====
